---- MODULE Spec2Model ----
(***************************************************************************)
(* ShakespeareBot: the hybrid retrieval engine (retrieve.py), the index    *)
(* store (index.py: save_index, load_index) and the lazy loader            *)
(* (_ensure_loaded).                                                       *)
(*                                                                         *)
(* Conventions.                                                            *)
(*  - A Python str is a sequence of one-character strings.                 *)
(*  - Python's None is the value None below where a str or a list could    *)
(*    stand, and 0 where a build number could stand.                       *)
(*  - Row indices are 0-based as in Python; row i of a corpus is           *)
(*    CorpusOf(b)[i + 1].                                                  *)
(*  - Scores are exact rationals.  One query's fused scores share the      *)
(*    denominator (den), so a score is stored as its numerator.            *)
(*    Floating-point rounding is not modelled.                             *)
(***************************************************************************)
EXTENDS Integers, Sequences, FiniteSets, TLC

(***************************************************************************)
(* Characters                                                              *)
(***************************************************************************)
DQuote == "\""
\* U+2014 EM DASH, one character
EmDash == "EMDASH"
\* "\n", one character
Newline == "NEWLINE"

UpperChars ==
  <<"A","B","C","D","E","F","G","H","I","J","K","L","M",
    "N","O","P","Q","R","S","T","U","V","W","X","Y","Z">>
LowerChars ==
  <<"a","b","c","d","e","f","g","h","i","j","k","l","m",
    "n","o","p","q","r","s","t","u","v","w","x","y","z">>
DigitChars == {"0","1","2","3","4","5","6","7","8","9"}
UpperSet == {UpperChars[i] : i \in 1..26}
LowerSet == {LowerChars[i] : i \in 1..26}

\* str.lower() on one character
LowerMap == [c \in UpperSet |-> LowerChars[CHOOSE i \in 1..26 : UpperChars[i] = c]]
LowerChar(c) == IF c \in UpperSet THEN LowerMap[c] ELSE c
\* str.lower()
lower(text) == [i \in 1..Len(text) |-> LowerChar(text[i])]

Min(S) == CHOOSE x \in S : \A y \in S : x <= y
Max(S) == CHOOSE x \in S : \A y \in S : x >= y

\* Python's  needle in haystack  on str
Contains(needle, haystack) ==
  \E i \in 0..(Len(haystack) - Len(needle)) :
    SubSeq(haystack, i + 1, i + Len(needle)) = needle

\* str.split(): the maximal runs of non-whitespace characters
RECURSIVE SplitFrom(_, _, _)
SplitFrom(s, i, cur) ==
  IF i > Len(s)
  THEN IF cur = <<>> THEN <<>> ELSE <<cur>>
  ELSE IF s[i] \in {" ", Newline}
       THEN IF cur = <<>>
            THEN SplitFrom(s, i + 1, <<>>)
            ELSE <<cur>> \o SplitFrom(s, i + 1, <<>>)
       ELSE SplitFrom(s, i + 1, Append(cur, s[i]))
split(s) == SplitFrom(s, 1, <<>>)

(***************************************************************************)
(* index.py: tokenize                                                      *)
(***************************************************************************)
IsTokenChar(c) == c \in LowerSet \cup DigitChars \cup {"'"}
\* re.sub(r"[^a-z0-9']", " ", text.lower()).split()
tokenize(text) ==
  split([i \in 1..Len(text) |->
           IF IsTokenChar(LowerChar(text[i])) THEN LowerChar(text[i]) ELSE " "])

(***************************************************************************)
(* retrieve.py: the phrase helpers                                         *)
(***************************************************************************)
None == <<>>

IsQuote(c) == c \in {"'", DQuote}
\* re.search(r"""['"](.+?)['"]""", query): the leftmost opening quote, then
\* the shortest non-empty run that a quote follows.  If the first quote has
\* no quote two or more places after it, no later quote has one either.
\* group(1) is never empty, so None (<<>>) is told apart from every match.
_extract_phrase(query) ==
  LET quotes == {i \in 1..Len(query) : IsQuote(query[i])}
  IN IF quotes = {}
     THEN None
     ELSE LET open == Min(quotes)
              close == {j \in quotes : j >= open + 2}
          IN IF close = {} THEN None
             ELSE SubSeq(query, open + 1, Min(close) - 1)

IsKeptChar(c) == c \in LowerSet \cup DigitChars \cup {" "}
\* re.sub(r"[^a-z0-9 ]", "", text.lower()): every other character is deleted,
\* nothing is put in its place
_strip_punct(text) == SelectSeq(lower(text), IsKeptChar)

\* the minimum needle length of _phrase_boost
MIN_PHRASE_LEN == 6
\* the word limit below which the whole query is the phrase
MAX_PHRASE_WORDS == 10

\* lines 106-113: the phrase _phrase_boost selects, or None
SelectedPhrase(query) ==
  LET quoted == _extract_phrase(query)
  IN IF quoted # None THEN quoted
     ELSE IF Len(split(query)) <= MAX_PHRASE_WORDS THEN query
     ELSE None

\* a needle that falls back from a too-short phrase to the whole query
PhraseNeedleWithFallback(query) ==
  LET phrase == SelectedPhrase(query)
  IN IF phrase = None THEN None
     ELSE IF Len(_strip_punct(phrase)) >= MIN_PHRASE_LEN THEN _strip_punct(phrase)
     ELSE IF Len(_strip_punct(query)) >= MIN_PHRASE_LEN THEN _strip_punct(query)
     ELSE None

\* lines 115-117: the needle _phrase_boost searches for, or None when it
\* returns {} early
PhraseNeedle(query) ==
  LET phrase == SelectedPhrase(query)
  IN IF phrase = None THEN None
     ELSE IF Len(_strip_punct(phrase)) < MIN_PHRASE_LEN THEN None
     ELSE _strip_punct(phrase)

(***************************************************************************)
(* The chunk corpora (data/chunks.jsonl) an index is built from.           *)
(***************************************************************************)
TextToBe ==
  <<"T","o"," ","b","e",","," ","o","r"," ","n","o","t"," ","t","o"," ","b","e",",">>
TextQuestion ==
  <<"T","o"," ","b","e",","," ","o","r"," ","n","o","t"," ","t","o"," ","b","e",EmDash,"t","h","a","t"," ","i","s"," ","t","h","e"," ","q","u","e","s","t","i","o","n">>
TextWitches ==
  <<"W","h","e","n"," ","s","h","a","l","l"," ","w","e"," ","t","h","r","e","e"," ","m","e","e","t"," ","a","g","a","i","n">>
TextWhos ==
  <<"W","h","o","'","s"," ","t","h","e","r","e","?">>
TextNotToBe ==
  <<"A","y",","," ","N","O","T"," ","T","O"," ","B","E",".">>

PlayHamlet == <<"H","a","m","l","e","t">>
PlayMacbeth == <<"M","a","c","b","e","t","h">>

Chunk(id, play, act, scene, text) ==
  [chunk_id |-> id, play |-> play, act |-> act, scene |-> scene, text |-> text]

\* chunk A (Hamlet 3.1) holds the line, chunk B (Macbeth 1.1) is about witches
CorpusTwo ==
  << Chunk("HAMLET_3_1_0000", PlayHamlet, 3, 1, TextToBe),
     Chunk("MACBETH_1_1_0000", PlayMacbeth, 1, 1, TextWitches) >>
\* four chunks of one scene and one of another
CorpusScene ==
  << Chunk("HAMLET_1_1_0000", PlayHamlet, 1, 1, TextWhos),
     Chunk("HAMLET_1_1_0001", PlayHamlet, 1, 1, TextToBe),
     Chunk("HAMLET_1_1_0002", PlayHamlet, 1, 1, TextQuestion),
     Chunk("HAMLET_1_1_0003", PlayHamlet, 1, 1, TextNotToBe),
     Chunk("MACBETH_1_1_0000", PlayMacbeth, 1, 1, TextWitches) >>
\* two plays, the line in the later rows
CorpusPlays ==
  << Chunk("HAMLET_1_1_0000", PlayHamlet, 1, 1, TextWhos),
     Chunk("HAMLET_3_1_0000", PlayHamlet, 3, 1, TextNotToBe),
     Chunk("MACBETH_1_1_0000", PlayMacbeth, 1, 1, TextWitches),
     Chunk("MACBETH_1_3_0000", PlayMacbeth, 1, 3, TextToBe) >>
Corpora == <<CorpusTwo, CorpusScene, CorpusPlays>>
NCorpora == Len(Corpora)

\* the number of index builds (a corpus with one behaviour of the two scorers)
NBuilds == 60
Builds == 1..NBuilds

\* the corpus build b indexes
CorpusIdOf(b) == ((b - 1) % NCorpora) + 1
CorpusOf(b) == Corpora[CorpusIdOf(b)]
NRows(b) == Len(CorpusOf(b))
RowsOf(b) == 0..(NRows(b) - 1)
\* index.py load_chunks: the metadata record and the text of row i
MetaOf(b, i) ==
  LET c == CorpusOf(b)[i + 1]
  IN [chunk_id |-> c.chunk_id, play |-> c.play, act |-> c.act, scene |-> c.scene]
TextOf(b, i) == CorpusOf(b)[i + 1].text

(***************************************************************************)
(* The queries and the work filters a caller passes.                       *)
(***************************************************************************)
QueryToBe ==
  <<"t","o"," ","b","e"," ","o","r"," ","n","o","t"," ","t","o"," ","b","e">>
QueryQuestion ==
  <<"t","o"," ","b","e"," ","o","r"," ","n","o","t"," ","t","o"," ","b","e"," ","t","h","a","t"," ","i","s"," ","t","h","e"," ","q","u","e","s","t","i","o","n">>
QueryQuoted ==
  <<"w","h","o"," ","s","a","i","d"," ",DQuote,"n","o","t"," ","t","o"," ","b","e",DQuote>>
QueryZounds == <<"z","o","u","n","d","s">>
QueryFie == <<"f","i","e">>
\* a quoted phrase of 5 characters in a query that is a line of the corpus
QueryShortQuote ==
  <<DQuote,"t","o"," ","b","e",DQuote," ","o","r"," ","n","o","t"," ","t","o"," ","b","e">>
Queries == <<QueryToBe, QueryQuestion, QueryQuoted, QueryZounds, QueryFie, QueryShortQuote>>
QueryIds == 1..Len(Queries)

FilterHam == <<"h","a","m">>
FilterMac == <<"M","A","C">>
FilterLear == <<"l","e","a","r">>
\* None and "" are both "no filter" (if play_filter:)
PlayFilters == {None, FilterHam, FilterMac, FilterLear}

\* the largest k a caller passes
MaxK == 4

(***************************************************************************)
(* The two scorers.  rank_bm25 and the sentence-transformers model are     *)
(* libraries: what they return is drawn from the profiles below, one pair  *)
(* of profiles per (build, query), the same at every call.  A raw score is *)
(* a whole number of score units.                                          *)
(***************************************************************************)
SimProfiles ==
  << <<2, 1, 0, -1, 1>>,
     <<0, 0, 0, 0, 0>>,
     <<-1, 2, 2, 1, 0>>,
     <<1, -1, 0, 2, 2>>,
     <<-1, -1, 1, 1, 3>> >>
LexProfiles ==
  << <<0, 0, 0, 0, 0>>,
     <<3, 1, 2, 1, 1>>,
     <<1, 1, 1, 1, 1>>,
     <<-1, 2, 0, 3, 2>> >>
NSim == Len(SimProfiles)
NLex == Len(LexProfiles)
SeedOf(b) == (b - 1) \div NCorpora

\* BM25Okapi.get_scores: a sum over the query tokens the document holds, so 0
\* for a chunk that shares no token with the query; otherwise any value (an
\* idf may be 0 or negative in a small corpus).
Range(seq) == {seq[i] : i \in 1..Len(seq)}
SharesToken(query, text) == Range(tokenize(query)) \cap Range(tokenize(text)) # {}
\* SharesToken of every query and every chunk, computed once
SharesTokenMemo ==
  [c \in 1..NCorpora |-> [q \in QueryIds |-> [i \in 0..(Len(Corpora[c]) - 1) |->
     SharesToken(Queries[q], Corpora[c][i + 1].text)]]]
LexRaw(b, q, i) ==
  IF SharesTokenMemo[CorpusIdOf(b)][q][i]
  THEN LexProfiles[(((SeedOf(b) \div NSim) + q) % NLex) + 1][i + 1]
  ELSE 0
\* _embeddings @ query_vec: the cosine similarity of row i and the query
SimRaw(b, q, i) == SimProfiles[((SeedOf(b) + q) % NSim) + 1][i + 1]

(***************************************************************************)
(* config.py                                                               *)
(***************************************************************************)
\* The pool sizes.  config.py sets 50 for a corpus of thousands of chunks;
\* they are scaled to corpora of 2 to 5 rows, so that a pool can leave rows
\* out here as 50 does there.
BM25_K == 2
EMBED_K == 2
\* BM25_WEIGHT = 0.4 and EMBED_WEIGHT = 0.6, in tenths
BM25_WEIGHT == 4
\* a vector weight of 1.6: with it the weights sum to 2.0, above the boost
EmbedWeightAboveBoost == 4 * BM25_WEIGHT
EMBED_WEIGHT == 6
WeightDen == 10
MAX_PER_SCENE == 3

\* eps = 1e-9 of _min_max_normalise is 1 / ScoreScale of a score unit
ScoreScale == 1000

(***************************************************************************)
(* retrieve.py: the searches                                               *)
(***************************************************************************)
\* np.argsort(scores)[::-1]: the rows by descending score.  The order of equal
\* scores is the sort's own: numpy's insertion sort on short arrays keeps
\* equal scores in row order, which [::-1] reverses ("stable"); another sort
\* kernel may leave them the other way round ("other").  One process has one.
ArgsortDesc(scores, rows, ties) ==
  LET before(j, i) ==
        \/ scores[j] > scores[i]
        \/ scores[j] = scores[i] /\ IF ties = "stable" THEN j > i ELSE j < i
  IN [p \in 1..Cardinality(rows) |->
        CHOOSE i \in rows : Cardinality({j \in rows : before(j, i)}) = p - 1]

\* seq[:k]
Take(seq, k) == SubSeq(seq, 1, IF k < Len(seq) THEN k ELSE Len(seq))

\* The element of a one-element set.  { F(x) : x \in {e} } computes e once and
\* names its value x, where a LET definition is computed anew at each use.
The(S) == CHOOSE x \in S : TRUE

\* a lexical search without the test  scores[i] > 0
Bm25SearchWithoutThreshold(b, q, k, ties) ==
  The({ [idx \in {top[p] : p \in 1..Len(top)} |-> scores[idx]] :
        <<scores, top>> \in
          { <<sc, Take(ArgsortDesc(sc, RowsOf(b), ties), k)>> :
            sc \in {[i \in RowsOf(b) |-> LexRaw(b, q, i)]} } })

\* _bm25_search, as the dict retrieve makes of its result: the top k rows,
\* those with a score > 0 only, each with its score
_bm25_search(b, q, k, ties) ==
  The({ [idx \in {top[p] : p \in {p \in 1..Len(top) : scores[top[p]] > 0}} |-> scores[idx]] :
        <<scores, top>> \in
          { <<sc, Take(ArgsortDesc(sc, RowsOf(b), ties), k)>> :
            sc \in {[i \in RowsOf(b) |-> LexRaw(b, q, i)]} } })

\* A vector search that drops the rows of similarity <= 0, as the lexical
\* search drops the rows of score <= 0.  retrieve.py has no such test.
EmbeddingSearchWithThreshold(b, q, k, ties) ==
  The({ [idx \in {top[p] : p \in {p \in 1..Len(top) : sims[top[p]] > 0}} |-> sims[idx]] :
        <<sims, top>> \in
          { <<sc, Take(ArgsortDesc(sc, RowsOf(b), ties), k)>> :
            sc \in {[i \in RowsOf(b) |-> SimRaw(b, q, i)]} } })

\* _embedding_search, as the dict retrieve makes of its result: the top k
\* rows, whatever their similarity, each with its similarity
_embedding_search(b, q, k, ties) ==
  The({ [idx \in {top[p] : p \in 1..Len(top)} |-> sims[idx]] :
        <<sims, top>> \in
          { <<sc, Take(ArgsortDesc(sc, RowsOf(b), ties), k)>> :
            sc \in {[i \in RowsOf(b) |-> SimRaw(b, q, i)]} } })

\* a normalisation by (s - lo) / (hi - lo), without eps
NormaliseWithoutEps(scores) ==
  IF DOMAIN scores = {}
  THEN [num |-> scores, den |-> 1]
  ELSE LET vals == {scores[i] : i \in DOMAIN scores}
           lo == Min(vals)
           hi == Max(vals)
       IN [num |-> [i \in DOMAIN scores |-> ScoreScale * (scores[i] - lo)],
           den |-> ScoreScale * (hi - lo)]

\* a normalisation that subtracts lo and does not divide by the range
NormaliseByShiftOnly(scores) ==
  IF DOMAIN scores = {}
  THEN [num |-> scores, den |-> 1]
  ELSE LET lo == Min({scores[i] : i \in DOMAIN scores})
       IN [num |-> [i \in DOMAIN scores |-> ScoreScale * (scores[i] - lo)],
           den |-> 1]

\* _min_max_normalise, as fractions num[idx] / den:
\*   (s - lo) / (hi - lo + eps)  =  ScoreScale (s - lo) / (ScoreScale (hi - lo) + 1)
_min_max_normalise(scores) ==
  IF DOMAIN scores = {}
  THEN [num |-> scores, den |-> 1]
  ELSE LET vals == {scores[i] : i \in DOMAIN scores}
           lo == Min(vals)
           hi == Max(vals)
       IN [num |-> [i \in DOMAIN scores |-> ScoreScale * (scores[i] - lo)],
           den |-> ScoreScale * (hi - lo) + 1]

\* The order in which CPython iterates a set of small non-negative ints (each
\* sits in the slot of its own value): ascending.  It holds for every row
\* index of the corpora here.
SetOrder(S) ==
  [p \in 1..Cardinality(S) |-> CHOOSE i \in S : Cardinality({j \in S : j < i}) = p - 1]

\* the boost _phrase_boost gives a matching chunk
PHRASE_BOOST == 1

\* needle in haystack, of _phrase_boost's loop, for a needle that is not None
PhraseMatches(needle, text) == Contains(needle, _strip_punct(text))
\* PhraseNeedle of every query, and PhraseMatches of every query with a needle
\* and every chunk, computed once
NeedleMemo == [q \in QueryIds |-> PhraseNeedle(Queries[q])]
PhraseMatchesMemo ==
  [c \in 1..NCorpora |-> [q \in QueryIds |-> [i \in 0..(Len(Corpora[c]) - 1) |->
     NeedleMemo[q] # None /\ PhraseMatches(NeedleMemo[q], Corpora[c][i + 1].text)]]]

\* _phrase_boost: the rows of `candidates` whose stripped text holds the
\* stripped phrase (the keys of the dict it returns; every value is 1.0)
_phrase_boost(candidates, q, bc, chunks) ==
  IF NeedleMemo[q] = None THEN {}
  ELSE {idx \in candidates : PhraseMatchesMemo[CorpusIdOf(bc)][q][chunks[idx + 1]]}

SceneKey(meta) == <<meta.play, meta.act, meta.scene>>
\* _apply_diversity: walk the ranked list, keep an item while its key has been
\* seen at most max_per_scene times (itself included)
RECURSIVE DiversityFrom(_, _, _, _)
DiversityFrom(ranked, p, counts, max_per_scene) ==
  IF p > Len(ranked) THEN <<>>
  ELSE LET key == SceneKey(ranked[p].meta)
           n == (IF key \in DOMAIN counts THEN counts[key] ELSE 0) + 1
           counts2 == [x \in DOMAIN counts \cup {key} |-> IF x = key THEN n ELSE counts[x]]
           rest == DiversityFrom(ranked, p + 1, counts2, max_per_scene)
       IN IF n <= max_per_scene THEN <<ranked[p]>> \o rest ELSE rest
\* a filter that tests the count before the item is counted ( < in place of
\* <= would be its opposite): it lets one item more through
DiversityOffByOne(ranked, max_per_scene) ==
  DiversityFrom(ranked, 1, <<>>, max_per_scene + 1)
\* a re-ranker: the items over the cap are moved to the end, not dropped
DiversityMovesToEnd(ranked, max_per_scene) ==
  LET over == {p \in 1..Len(ranked) :
                 Cardinality({r \in 1..(p - 1) :
                                SceneKey(ranked[r].meta) = SceneKey(ranked[p].meta)})
                   >= max_per_scene}
  IN DiversityFrom(ranked, 1, <<>>, max_per_scene)
       \o [i \in 1..Cardinality(over) |-> ranked[SetOrder(over)[i]]]
_apply_diversity(ranked, max_per_scene) ==
  DiversityFrom(ranked, 1, <<>>, max_per_scene)

(***************************************************************************)
(* retrieve.py: retrieve, from the searches to the return.                 *)
(*   bb, be, bm, bc: the builds the cached _bm25, _embeddings, _metas and  *)
(*   _chunks come from; chunks: the list _chunks, as the rows of the file  *)
(*   its items were read from; q: the query (Queries[q]); k;               *)
(*   play_filter.                                                          *)
(* The result is the record of retrieve's locals at its return, or the     *)
(* exception it raises.                                                    *)
(***************************************************************************)
DigitStr == <<"0","1","2","3","4","5","6","7","8","9">>
\* str(n) for n >= 0
RECURSIVE str(_)
str(n) == IF n < 10 THEN <<DigitStr[n + 1]>> ELSE str(n \div 10) \o <<DigitStr[(n % 10) + 1]>>
\* f"S{i}"
Sid(i) == <<"S">> \o str(i)

Raised(exc) ==
  [outcome |-> exc, candidates |-> {}, boosts |-> {}, den |-> 1,
   ranked |-> <<>>, kept |-> <<>>, sources |-> <<>>]

\* the early  return []  of an empty candidate set
ReturnedEmpty ==
  [outcome |-> "ok", candidates |-> {}, boosts |-> {}, den |-> 1,
   ranked |-> <<>>, kept |-> <<>>, sources |-> <<>>]

\* A sort by descending score that leaves equal scores in the reverse of the
\* dict's order, as  sorted(fused, key=fused.get)[::-1]  would.
SortedDescReversed(keys, fused) ==
  LET before(a, b) ==
        \/ fused[keys[a]] > fused[keys[b]]
        \/ fused[keys[a]] = fused[keys[b]] /\ a > b
  IN [p \in 1..Len(keys) |->
        keys[CHOOSE a \in 1..Len(keys) :
               Cardinality({b \in 1..Len(keys) : before(b, a)}) = p - 1]]

\* sorted(fused, key=fused.get, reverse=True): by descending score, equal
\* scores in the order of the dict's keys (sorted is stable, and reverse=True
\* keeps the order of equal elements)
SortedDesc(keys, fused) ==
  LET before(a, b) ==
        \/ fused[keys[a]] > fused[keys[b]]
        \/ fused[keys[a]] = fused[keys[b]] /\ a < b
  IN [p \in 1..Len(keys) |->
        keys[CHOOSE a \in 1..Len(keys) :
               Cardinality({b \in 1..Len(keys) : before(b, a)}) = p - 1]]

\* the numbering without the slice  sources[:k]
NumberWithoutTrim(sources, k) ==
  [i \in 1..Len(sources) |-> [sources[i] EXCEPT !.sid = Sid(i)]]

\* the numbering of  enumerate(sources)  without  start=1
NumberFromZero(sources, k) ==
  [i \in 1..Len(Take(sources, k)) |-> [sources[i] EXCEPT !.sid = Sid(i - 1)]]

\* sources[:k], then  src["sid"] = f"S{i}"  for i from 1
TrimAndNumber(sources, k) ==
  [i \in 1..Len(Take(sources, k)) |-> [sources[i] EXCEPT !.sid = Sid(i)]]

\* pf in play.lower(), for every filter and every play, computed once
Plays == {PlayHamlet, PlayMacbeth}
FilterMemo ==
  [pf \in PlayFilters \ {None} |-> [play \in Plays |-> Contains(lower(pf), lower(play))]]
\* a work filter that lets every row pass
PassesAnyFilter(play_filter, bm, idx) == MetaOf(bm, idx).play \in Plays
\* pf in _metas[idx]["play"].lower()
PassesFilter(play_filter, bm, idx) == FilterMemo[play_filter][MetaOf(bm, idx).play]

\* lines 206-215: the dict of one ranked row.  row is the row index the
\* source was built from (not a key of the dict).
Source(bm, bc, chunks, idx, score) ==
  [sid |-> <<>>,
   chunk_id |-> MetaOf(bm, idx).chunk_id,
   meta |-> MetaOf(bm, idx),
   text |-> TextOf(bc, chunks[idx + 1]),
   score |-> score,
   row |-> idx]

\* lines 201-225: sort, build the sources, filter, trim, number
RetrieveRank(bm, bc, chunks, k, candidates, boosts, fused, den, keys) ==
  The({ IF \E p \in 1..Len(ranked_indices) :
             ranked_indices[p] \notin RowsOf(bm) \/ ranked_indices[p] \notin 0..(Len(chunks) - 1)
        THEN Raised("IndexError")
        ELSE The({ [outcome |-> "ok", candidates |-> candidates, boosts |-> boosts,
                    den |-> den, ranked |-> sources, kept |-> kept,
                    sources |-> TrimAndNumber(kept, k)] :
                   <<sources, kept>> \in
                     { <<srcs, _apply_diversity(srcs, MAX_PER_SCENE)>> :
                       srcs \in
                         { [p \in 1..Len(ranked_indices) |->
                              Source(bm, bc, chunks, ranked_indices[p],
                                     fused[ranked_indices[p]])] } } }) :
        ranked_indices \in {SortedDesc(keys, fused)} })

\* lines 188-199: the phrase boost over every chunk that passes the filter
RetrieveBoost(bm, bc, chunks, q, k, play_filter, candidates, fused0, den) ==
  IF play_filter # None /\ \E i \in 0..(Len(chunks) - 1) : i \notin RowsOf(bm)
  THEN Raised("IndexError")
  ELSE The({ The({ RetrieveRank(bm, bc, chunks, k, candidates, boosts, fused, den, keys) :
                    <<fused, keys>> \in
                      { << [idx \in candidates \cup boosts |->
                              (IF idx \in candidates THEN fused0[idx] ELSE 0)
                              + (IF idx \in boosts THEN PHRASE_BOOST * den ELSE 0)],
                           \* the keys of fused in insertion order: the
                           \* candidates as the set iterates them, then the
                           \* rows only the phrase boost added
                           SetOrder(candidates) \o SetOrder(boosts \ candidates) >> } }) :
             boosts \in
               { _phrase_boost(IF play_filter # None
                               THEN {i \in 0..(Len(chunks) - 1) :
                                       PassesFilter(play_filter, bm, i)}
                               ELSE 0..(Len(chunks) - 1),
                               q, bc, chunks) } })

\* lines 175-186: the scores over the candidates, 0.0 for a row a search did
\* not return; normalise; fuse.  den is the common denominator of the fused
\* scores.
RetrieveFuse(bm, bc, chunks, q, k, play_filter, bm25_scores, emb_scores, candidates) ==
  The({ The({ RetrieveBoost(bm, bc, chunks, q, k, play_filter, candidates, fused0, den) :
               <<fused0, den>> \in
                 { << [idx \in candidates |->
                         BM25_WEIGHT * bm25_norm.num[idx] * emb_norm.den
                         + EMBED_WEIGHT * emb_norm.num[idx] * bm25_norm.den],
                      WeightDen * bm25_norm.den * emb_norm.den >> } }) :
        <<bm25_norm, emb_norm>> \in
          { << _min_max_normalise([idx \in candidates |->
                  IF idx \in DOMAIN bm25_scores THEN bm25_scores[idx] ELSE 0]),
               _min_max_normalise([idx \in candidates |->
                  IF idx \in DOMAIN emb_scores THEN emb_scores[idx] ELSE 0]) >> } })

\* lines 164-173 without the work filter of lines 168-170
RetrieveCandidatesUnfiltered(bm, bc, chunks, q, k, play_filter, bm25_scores, emb_scores) ==
  The({ IF candidates = {}
        THEN ReturnedEmpty
        ELSE RetrieveFuse(bm, bc, chunks, q, k, play_filter, bm25_scores, emb_scores,
                          candidates) :
        candidates \in {DOMAIN bm25_scores \cup DOMAIN emb_scores} })

\* lines 164-170 without the early return of lines 172-173
RetrieveCandidatesNoEarlyReturn(bm, bc, chunks, q, k, play_filter, bm25_scores, emb_scores) ==
  IF play_filter # None
     /\ \E idx \in DOMAIN bm25_scores \cup DOMAIN emb_scores : idx \notin RowsOf(bm)
  THEN Raised("IndexError")
  ELSE The({ RetrieveFuse(bm, bc, chunks, q, k, play_filter, bm25_scores, emb_scores,
                          candidates) :
             candidates \in
               { IF play_filter # None
                 THEN {idx \in DOMAIN bm25_scores \cup DOMAIN emb_scores :
                         PassesFilter(play_filter, bm, idx)}
                 ELSE DOMAIN bm25_scores \cup DOMAIN emb_scores } })

\* lines 164-173: the union of the pools, the work filter, the early return
RetrieveCandidates(bm, bc, chunks, q, k, play_filter, bm25_scores, emb_scores) ==
  IF play_filter # None
     /\ \E idx \in DOMAIN bm25_scores \cup DOMAIN emb_scores : idx \notin RowsOf(bm)
  THEN Raised("IndexError")
  ELSE The({ IF candidates = {}
             THEN ReturnedEmpty
             ELSE RetrieveFuse(bm, bc, chunks, q, k, play_filter, bm25_scores, emb_scores,
                               candidates) :
             candidates \in
               { IF play_filter # None
                 THEN {idx \in DOMAIN bm25_scores \cup DOMAIN emb_scores :
                         PassesFilter(play_filter, bm, idx)}
                 ELSE DOMAIN bm25_scores \cup DOMAIN emb_scores } })

\* lines 154-162: the two searches
retrieve(bb, be, bm, bc, chunks, ties, q, k, play_filter) ==
  The({ RetrieveCandidates(bm, bc, chunks, q, k, play_filter, bm25_scores, emb_scores) :
        <<bm25_scores, emb_scores>> \in
          { << _bm25_search(bb, q, BM25_K, ties),
               _embedding_search(be, q, EMBED_K, ties) >> } })

(***************************************************************************)
(* The state.                                                              *)
(***************************************************************************)
VARIABLES
  disk,            \* INDEX_DIR/bm25.pkl, embeddings.npy, meta.pkl and DATA_DIR/chunks.jsonl
  tieOrder,        \* the order this process's np.argsort leaves equal scores in
  _bm25,           \* retrieve.py's lazy globals: the build each was loaded
  _corpus_tokens,  \*   from, 0 for None
  _embeddings,
  _metas,
  _chunks,         \* None, or the list, as the file rows its items were read from
  _embed_model,    \* FALSE for None
  pc,              \* where each thread of the query process is
  call,            \* each thread's call: its arguments, and its result or exception
  ld,              \* each thread's locals inside load_index
  exitStatus,      \* the status the query process exited with, 0 while it runs
  stderr,          \* the last error the query process printed
  bpc,             \* where the build process is inside save_index
  bbuild,          \* the build it is saving
  probe            \* a direct call of a helper: its arguments and its result

vars == <<disk, tieOrder, _bm25, _corpus_tokens, _embeddings, _metas, _chunks,
          _embed_model, pc, call, ld, exitStatus, stderr, bpc, bbuild, probe>>
globals == <<_bm25, _corpus_tokens, _embeddings, _metas, _chunks, _embed_model>>
builder == <<bpc, bbuild>>
\* what no step of the query process touches
outside == <<bpc, bbuild, probe>>
process == <<pc, call, ld, exitStatus, stderr>>

Absent == [st |-> "absent", build |-> 0]
\* a file that a writer opened and has not finished
Partial(b) == [st |-> "partial", build |-> b]
Complete(b) == [st |-> "complete", build |-> b]

\* the three artifacts, in the order save_index writes and load_index reads them
IndexFiles == <<"bm25", "emb", "meta">>
\* an existence loop that leaves out meta.pkl
CheckedFilesWithoutMeta == <<"bm25", "emb">>
\* line 122: the paths whose existence load_index checks, in its order
CheckedFiles == <<"bm25", "emb", "meta">>

NoChunks == [set |-> FALSE, build |-> 0, rows |-> <<>>]
NoCall == [op |-> "none", q |-> 0, k |-> 0, play_filter |-> None, result |-> Raised("none")]
NoLoad == [path |-> 0, bm25 |-> 0, emb |-> 0, meta |-> 0]
NoProbe == [op |-> "none", at |-> "none", input |-> <<>>, cap |-> 0, output |-> <<>>]
BuilderIdle == [at |-> "idle", path |-> 0]

(***************************************************************************)
(* index.py: load_index                                                    *)
(***************************************************************************)
\* lines 122-128: one  p.exists()  of the loop; a missing path prints the
\* rebuild instruction and exits with status 2
LoadExists(t) ==
  /\ pc[t] = "exists"
  /\ LET f == CheckedFiles[ld[t].path]
     IN IF disk[f].st = "absent"
        THEN /\ pc' = [pc EXCEPT ![t] = "exit"]
             /\ exitStatus' = 2
             /\ stderr' = "Index file not found. Run: python index.py"
             /\ ld' = [ld EXCEPT ![t] = NoLoad]
        ELSE /\ IF ld[t].path < Len(CheckedFiles)
                THEN /\ ld' = [ld EXCEPT ![t].path = @ + 1]
                     /\ pc' = pc
                ELSE /\ ld' = [ld EXCEPT ![t].path = 1]
                     /\ pc' = [pc EXCEPT ![t] = "read"]
             /\ UNCHANGED <<exitStatus, stderr>>
  /\ UNCHANGED <<disk, tieOrder, globals, call, outside>>

\* lines 130-138: one  pickle.load / np.load.  A file whose writer has not
\* finished does not unpickle: the load raises.
LoadRead(t) ==
  /\ pc[t] = "read"
  /\ LET f == IndexFiles[ld[t].path]
     IN IF disk[f].st = "complete"
        THEN /\ ld' = [ld EXCEPT ![t] =
                         [@ EXCEPT ![f] = disk[f].build,
                                   !.path = IF @ < Len(IndexFiles) THEN @ + 1 ELSE 0]]
             /\ pc' = [pc EXCEPT ![t] = IF ld[t].path < Len(IndexFiles) THEN "read" ELSE "loaded"]
             /\ call' = call
        ELSE /\ ld' = [ld EXCEPT ![t] = NoLoad]
             /\ pc' = [pc EXCEPT ![t] = "raised"]
             /\ call' = [call EXCEPT ![t].result =
                           Raised(IF disk[f].st = "absent" THEN "FileNotFoundError"
                                  ELSE "UnpicklingError")]
  /\ UNCHANGED <<disk, tieOrder, globals, exitStatus, stderr, outside>>

(***************************************************************************)
(* retrieve.py: _ensure_loaded                                             *)
(***************************************************************************)
\* a caller calls retrieve(query, k, play_filter)
Call(t, q, k, play_filter) ==
  /\ pc[t] = "idle"
  /\ pc' = [pc EXCEPT ![t] = "ensure"]
  /\ call' = [call EXCEPT ![t] =
                [op |-> "retrieve", q |-> q, k |-> k, play_filter |-> play_filter,
                 result |-> Raised("none")]]
  /\ UNCHANGED <<disk, tieOrder, globals, ld, exitStatus, stderr, outside>>

\* an _ensure_loaded without the guard of lines 36-37: every call loads
EnsureLoadedEveryCall(t) ==
  /\ pc[t] = "ensure"
  /\ pc' = [pc EXCEPT ![t] = "exists"]
  /\ ld' = [ld EXCEPT ![t] = [NoLoad EXCEPT !.path = 1]]
  /\ UNCHANGED <<disk, tieOrder, globals, call, exitStatus, stderr, outside>>

\* lines 36-39: return at once when _bm25 is set, else call load_index
EnsureLoaded(t) ==
  /\ pc[t] = "ensure"
  /\ IF _bm25 # 0
     THEN /\ pc' = [pc EXCEPT ![t] = "search"]
          /\ ld' = ld
     ELSE /\ pc' = [pc EXCEPT ![t] = "exists"]
          /\ ld' = [ld EXCEPT ![t] = [NoLoad EXCEPT !.path = 1]]
  /\ UNCHANGED <<disk, tieOrder, globals, call, exitStatus, stderr, outside>>

\* line 39: the tuple load_index returned is stored, _bm25 first
StoreBm25(t) ==
  /\ pc[t] = "loaded"
  /\ call[t].op = "retrieve"
  /\ _bm25' = ld[t].bm25
  /\ pc' = [pc EXCEPT ![t] = "store_rest"]
  /\ UNCHANGED <<disk, tieOrder, _corpus_tokens, _embeddings, _metas, _chunks,
                 _embed_model, call, ld, exitStatus, stderr, outside>>

StoreRest(t) ==
  /\ pc[t] = "store_rest"
  /\ _corpus_tokens' = ld[t].bm25
  /\ _embeddings' = ld[t].emb
  /\ _metas' = ld[t].meta
  /\ ld' = [ld EXCEPT ![t] = NoLoad]
  /\ pc' = [pc EXCEPT ![t] = "chunks_exists"]
  /\ UNCHANGED <<disk, tieOrder, _bm25, _chunks, _embed_model, call, exitStatus,
                 stderr, outside>>

\* lines 42-46: chunks.jsonl missing exits with status 3; else _chunks = []
ChunksExists(t) ==
  /\ pc[t] = "chunks_exists"
  /\ IF disk.chunks.st = "absent"
     THEN /\ pc' = [pc EXCEPT ![t] = "exit"]
          /\ exitStatus' = 3
          /\ stderr' = "chunks.jsonl not found."
          /\ _chunks' = _chunks
          /\ ld' = ld
     ELSE /\ pc' = [pc EXCEPT ![t] = "chunks_read"]
          /\ _chunks' = [set |-> TRUE, build |-> disk.chunks.build, rows |-> <<>>]
          \* the file this thread reads: ld.meta is the build of the file it
          \* opened, ld.path the lines it has read
          /\ ld' = [ld EXCEPT ![t] = [NoLoad EXCEPT !.meta = disk.chunks.build]]
          /\ UNCHANGED <<exitStatus, stderr>>
  /\ UNCHANGED <<disk, tieOrder, _bm25, _corpus_tokens, _embeddings, _metas,
                 _embed_model, call, outside>>

\* lines 47-49: one turn of the loop: the next line of the file is appended
\* to the list the global names, or the file is at its end.  ld.path counts
\* the lines this thread has read of the file it opened.
ChunksRead(t) ==
  /\ pc[t] = "chunks_read"
  /\ IF ld[t].path < NRows(ld[t].meta)
     THEN /\ _chunks' = [_chunks EXCEPT !.rows = Append(@, ld[t].path)]
          /\ ld' = [ld EXCEPT ![t].path = @ + 1]
          /\ pc' = pc
     ELSE /\ _chunks' = _chunks
          /\ ld' = [ld EXCEPT ![t] = NoLoad]
          /\ pc' = [pc EXCEPT ![t] = "model"]
  /\ UNCHANGED <<disk, tieOrder, _bm25, _corpus_tokens, _embeddings, _metas,
                 _embed_model, call, exitStatus, stderr, outside>>

\* line 51: SentenceTransformer(EMBED_MODEL) returns the model
LoadModel(t) ==
  /\ pc[t] = "model"
  /\ _embed_model' = TRUE
  /\ pc' = [pc EXCEPT ![t] = "search"]
  /\ UNCHANGED <<disk, tieOrder, _bm25, _corpus_tokens, _embeddings, _metas,
                 _chunks, call, ld, exitStatus, stderr, outside>>

\* line 51: SentenceTransformer(EMBED_MODEL) raises (the model cannot be
\* fetched or read)
LoadModelFails(t) ==
  /\ pc[t] = "model"
  /\ pc' = [pc EXCEPT ![t] = "raised"]
  /\ call' = [call EXCEPT ![t].result = Raised("OSError")]
  /\ UNCHANGED <<disk, tieOrder, globals, ld, exitStatus, stderr, outside>>

(***************************************************************************)
(* retrieve.py: retrieve, lines 154-225                                    *)
(***************************************************************************)
\* a retrieve that is not a function of its arguments and the cache: once
\* the caller has kept a list, argsort leaves equal scores the other way round
SearchAfterKeptList(t) ==
  /\ pc[t] = "search"
  /\ LET ties == IF probe.op = "retrieve"
                 THEN (IF tieOrder = "stable" THEN "other" ELSE "stable")
                 ELSE tieOrder
         r == IF ~_embed_model
              THEN Raised("AttributeError")
              ELSE IF _metas = 0 \/ ~_chunks.set
              THEN Raised("TypeError")
              ELSE retrieve(_bm25, _embeddings, _metas, _chunks.build, _chunks.rows,
                            ties, call[t].q, call[t].k, call[t].play_filter)
     IN /\ call' = [call EXCEPT ![t].result = r]
        /\ pc' = [pc EXCEPT ![t] = IF r.outcome = "ok" THEN "returned" ELSE "raised"]
  /\ UNCHANGED <<disk, tieOrder, globals, ld, exitStatus, stderr, outside>>

Search(t) ==
  /\ pc[t] = "search"
  /\ LET r == IF ~_embed_model
              THEN Raised("AttributeError")
              ELSE IF _metas = 0 \/ ~_chunks.set
              THEN Raised("TypeError")
              ELSE retrieve(_bm25, _embeddings, _metas, _chunks.build, _chunks.rows,
                            tieOrder, call[t].q, call[t].k, call[t].play_filter)
     IN /\ call' = [call EXCEPT ![t].result = r]
        /\ pc' = [pc EXCEPT ![t] = IF r.outcome = "ok" THEN "returned" ELSE "raised"]
  /\ UNCHANGED <<disk, tieOrder, globals, ld, exitStatus, stderr, outside>>

\* the caller has the list and drops it
Return(t) ==
  /\ pc[t] = "returned"
  /\ pc' = [pc EXCEPT ![t] = "idle"]
  /\ call' = [call EXCEPT ![t] = NoCall]
  /\ UNCHANGED <<disk, tieOrder, globals, ld, exitStatus, stderr, outside>>

\* tui.py lines 215-219: the caller catches the exception and goes on
Catch(t) ==
  /\ pc[t] = "raised"
  /\ pc' = [pc EXCEPT ![t] = "idle"]
  /\ call' = [call EXCEPT ![t] = NoCall]
  /\ UNCHANGED <<disk, tieOrder, globals, ld, exitStatus, stderr, outside>>

(***************************************************************************)
(* The query process: one thread, on a disk where each file is whole or    *)
(* missing.                                                                *)
(***************************************************************************)
\* the one thread of the query process
Main == 1

Init ==
  /\ \E b \in Builds :
       disk \in [bm25 : {Absent, Complete(b)}, emb : {Absent, Complete(b)},
                 meta : {Absent, Complete(b)}, chunks : {Absent, Complete(b)}]
  /\ tieOrder \in {"stable", "other"}
  /\ _bm25 = 0
  /\ _corpus_tokens = 0
  /\ _embeddings = 0
  /\ _metas = 0
  /\ _chunks = NoChunks
  /\ _embed_model = FALSE
  /\ pc = [t \in {Main} |-> "idle"]
  /\ call = [t \in {Main} |-> NoCall]
  /\ ld = [t \in {Main} |-> NoLoad]
  /\ exitStatus = 0
  /\ stderr = ""
  /\ bpc = BuilderIdle
  /\ bbuild = 0
  /\ probe = NoProbe

Next ==
  \/ \E q \in QueryIds, k \in 1..MaxK, play_filter \in PlayFilters :
       Call(Main, q, k, play_filter)
  \/ EnsureLoaded(Main)
  \/ LoadExists(Main)
  \/ LoadRead(Main)
  \/ StoreBm25(Main)
  \/ StoreRest(Main)
  \/ ChunksExists(Main)
  \/ ChunksRead(Main)
  \/ LoadModel(Main)
  \/ LoadModelFails(Main)
  \/ Search(Main)
  \/ Return(Main)
  \/ Catch(Main)

Spec == Init /\ [][Next]_vars

(***************************************************************************)
(* The index directory under a build: index.py's save_index writes the     *)
(* three files one after the other, into the paths load_index reads, and   *)
(* the build process can be killed between any two steps.  A reader calls  *)
(* load_index directly.                                                    *)
(***************************************************************************)
NStoreBuilds == 4
StoreBuilds == 1..NStoreBuilds

\* index.py lines 146-159, 96: build() has its data and calls save_index
StartSave(b) ==
  /\ bpc = BuilderIdle
  /\ bbuild' = b
  /\ bpc' = [at |-> "open", path |-> 1]
  /\ UNCHANGED <<disk, tieOrder, globals, process, probe>>

\* lines 99, 104, 108: open(path, "wb") (np.save opens the same way): the
\* file exists, empty, whatever it held before
SaveOpen ==
  /\ bpc.at = "open"
  /\ disk' = [disk EXCEPT ![IndexFiles[bpc.path]] = Partial(bbuild)]
  /\ bpc' = [bpc EXCEPT !.at = "write"]
  /\ UNCHANGED <<tieOrder, globals, process, bbuild, probe>>

\* lines 100, 104, 109: the dump is written and the file closed; after the
\* third file save_index returns
SaveWrite ==
  /\ bpc.at = "write"
  /\ disk' = [disk EXCEPT ![IndexFiles[bpc.path]] = Complete(bbuild)]
  /\ IF bpc.path < Len(IndexFiles)
     THEN /\ bpc' = [at |-> "open", path |-> bpc.path + 1]
          /\ bbuild' = bbuild
     ELSE /\ bpc' = BuilderIdle
          /\ bbuild' = 0
  /\ UNCHANGED <<tieOrder, globals, process, probe>>

\* the build process is killed inside save_index; the files stay as they are
Crash ==
  /\ bpc.at # "idle"
  /\ bpc' = BuilderIdle
  /\ bbuild' = 0
  /\ UNCHANGED <<disk, tieOrder, globals, process, probe>>

\* a caller calls load_index()
LoadCall(t) ==
  /\ pc[t] = "idle"
  /\ pc' = [pc EXCEPT ![t] = "exists"]
  /\ call' = [call EXCEPT ![t] = [NoCall EXCEPT !.op = "load_index"]]
  /\ ld' = [ld EXCEPT ![t] = [NoLoad EXCEPT !.path = 1]]
  /\ UNCHANGED <<disk, tieOrder, globals, exitStatus, stderr, outside>>

\* line 140: the caller has the tuple
LoadReturn(t) ==
  /\ pc[t] = "loaded"
  /\ call[t].op = "load_index"
  /\ pc' = [pc EXCEPT ![t] = "idle"]
  /\ call' = [call EXCEPT ![t] = NoCall]
  /\ ld' = [ld EXCEPT ![t] = NoLoad]
  /\ UNCHANGED <<disk, tieOrder, globals, exitStatus, stderr, outside>>

\* after sys.exit the reader is started again, a new process
Restart(t) ==
  /\ pc[t] = "exit"
  /\ pc' = [pc EXCEPT ![t] = "idle"]
  /\ call' = [call EXCEPT ![t] = NoCall]
  /\ exitStatus' = 0
  /\ stderr' = ""
  /\ UNCHANGED <<disk, tieOrder, globals, ld, outside>>

\* the directory is empty, or holds the three files of one finished build
InitStore ==
  /\ \/ disk = [bm25 |-> Absent, emb |-> Absent, meta |-> Absent, chunks |-> Absent]
     \/ \E b \in StoreBuilds :
          disk = [bm25 |-> Complete(b), emb |-> Complete(b), meta |-> Complete(b),
                  chunks |-> Complete(b)]
  /\ tieOrder = "stable"
  /\ _bm25 = 0
  /\ _corpus_tokens = 0
  /\ _embeddings = 0
  /\ _metas = 0
  /\ _chunks = NoChunks
  /\ _embed_model = FALSE
  /\ pc = [t \in {Main} |-> "idle"]
  /\ call = [t \in {Main} |-> NoCall]
  /\ ld = [t \in {Main} |-> NoLoad]
  /\ exitStatus = 0
  /\ stderr = ""
  /\ bpc = BuilderIdle
  /\ bbuild = 0
  /\ probe = NoProbe

NextStore ==
  \/ \E b \in StoreBuilds : StartSave(b)
  \/ SaveOpen
  \/ SaveWrite
  \/ Crash
  \/ LoadCall(Main)
  \/ LoadExists(Main)
  \/ LoadRead(Main)
  \/ LoadReturn(Main)
  \/ Catch(Main)
  \/ Restart(Main)

SpecStore == InitStore /\ [][NextStore]_vars

(***************************************************************************)
(* retrieve.py: _apply_diversity called directly, on any list of sources   *)
(* and any cap.                                                            *)
(***************************************************************************)
MaxProbeLen == 5
MaxCap == 3
\* the sources the lists are made of: the four chunks of Hamlet 1.1 and the
\* chunk of Macbeth 1.1 of CorpusScene, and the chunk of Hamlet 3.1 of
\* CorpusPlays
ProbeSources ==
  {Source(2, 2, SetOrder(RowsOf(2)), idx, 0) : idx \in RowsOf(2)}
    \cup {Source(3, 3, SetOrder(RowsOf(3)), 1, 0)}
ProbeInputs == UNION {[1..n -> ProbeSources] : n \in 0..MaxProbeLen}

\* lines 127-136, from the call to the return
ApplyDiversity ==
  /\ probe.op = "_apply_diversity"
  /\ probe.at = "called"
  /\ probe' = [probe EXCEPT !.at = "returned",
                            !.output = _apply_diversity(probe.input, probe.cap)]
  /\ UNCHANGED <<disk, tieOrder, globals, process, builder>>

InitDiversity ==
  /\ disk = [bm25 |-> Absent, emb |-> Absent, meta |-> Absent, chunks |-> Absent]
  /\ tieOrder = "stable"
  /\ _bm25 = 0
  /\ _corpus_tokens = 0
  /\ _embeddings = 0
  /\ _metas = 0
  /\ _chunks = NoChunks
  /\ _embed_model = FALSE
  /\ pc = [t \in {Main} |-> "idle"]
  /\ call = [t \in {Main} |-> NoCall]
  /\ ld = [t \in {Main} |-> NoLoad]
  /\ exitStatus = 0
  /\ stderr = ""
  /\ bpc = BuilderIdle
  /\ bbuild = 0
  /\ \E ranked \in ProbeInputs, max_per_scene \in 1..MaxCap :
       probe = [op |-> "_apply_diversity", at |-> "called", input |-> ranked,
                cap |-> max_per_scene, output |-> <<>>]

\* the query process, or a direct call of _apply_diversity in a process
\* that does nothing else
NextDiversity ==
  \/ probe = NoProbe /\ Next
  \/ ApplyDiversity

SpecDiversity == (Init \/ InitDiversity) /\ [][NextDiversity]_vars

(***************************************************************************)
(* Two threads of one query process call retrieve; the index files are     *)
(* all there and the embedding model loads.  One step is one of the steps  *)
(* above of one thread: the interpreter can switch threads between any two *)
(* of them (between the stores of line 39's tuple assignment, and between  *)
(* two turns of the loop of lines 48-49, too).                             *)
(***************************************************************************)
Worker == 2
NThreadBuilds == 2
ThreadBuilds == 1..NThreadBuilds
\* the work filters the two threads pass
ThreadFilters == {None, FilterMac}

InitThreads ==
  /\ \E b \in ThreadBuilds :
       disk = [bm25 |-> Complete(b), emb |-> Complete(b), meta |-> Complete(b),
               chunks |-> Complete(b)]
  /\ tieOrder = "stable"
  /\ _bm25 = 0
  /\ _corpus_tokens = 0
  /\ _embeddings = 0
  /\ _metas = 0
  /\ _chunks = NoChunks
  /\ _embed_model = FALSE
  /\ pc = [t \in {Main, Worker} |-> "idle"]
  /\ call = [t \in {Main, Worker} |-> NoCall]
  /\ ld = [t \in {Main, Worker} |-> NoLoad]
  /\ exitStatus = 0
  /\ stderr = ""
  /\ bpc = BuilderIdle
  /\ bbuild = 0
  /\ probe = NoProbe

NextThreads ==
  \/ \E q \in QueryIds, play_filter \in ThreadFilters : Call(Main, q, MaxK, play_filter)
  \/ EnsureLoaded(Main)
  \/ LoadExists(Main)
  \/ LoadRead(Main)
  \/ StoreBm25(Main)
  \/ StoreRest(Main)
  \/ ChunksExists(Main)
  \/ ChunksRead(Main)
  \/ LoadModel(Main)
  \/ Search(Main)
  \/ Return(Main)
  \/ Catch(Main)
  \/ \E q \in QueryIds, play_filter \in ThreadFilters : Call(Worker, q, MaxK, play_filter)
  \/ EnsureLoaded(Worker)
  \/ LoadExists(Worker)
  \/ LoadRead(Worker)
  \/ StoreBm25(Worker)
  \/ StoreRest(Worker)
  \/ ChunksExists(Worker)
  \/ ChunksRead(Worker)
  \/ LoadModel(Worker)
  \/ Search(Worker)
  \/ Return(Worker)
  \/ Catch(Worker)

SpecThreads == InitThreads /\ [][NextThreads]_vars

(***************************************************************************)
(* A caller that keeps a list: the query process on a whole index, and a   *)
(* caller that keeps the list of one call and goes on calling.  probe      *)
(* holds the call kept (input: query, k, play_filter; output: the list)    *)
(* and, in cap, how many lists of other calls the caller has had since.    *)
(***************************************************************************)
NRepeatBuilds == 2
RepeatBuilds == 1..NRepeatBuilds
\* the calls between the two compared that the caller counts
MaxBetween == 1

CallArgs(t) == <<call[t].q, call[t].k, call[t].play_filter>>

\* tui.py lines 213-219: the caller has the list; it keeps the first list it
\* keeps at all, and counts a later list of another call
Keep(t) ==
  /\ pc[t] = "returned"
  /\ IF probe = NoProbe
     THEN probe' = [op |-> "retrieve", at |-> "kept", input |-> CallArgs(t), cap |-> 0,
                    output |-> call[t].result.sources]
     ELSE /\ probe.op = "retrieve"
          /\ CallArgs(t) # probe.input
          /\ probe.cap < MaxBetween
          /\ probe' = [probe EXCEPT !.cap = @ + 1]
  /\ pc' = [pc EXCEPT ![t] = "idle"]
  /\ call' = [call EXCEPT ![t] = NoCall]
  /\ UNCHANGED <<disk, tieOrder, globals, ld, exitStatus, stderr, builder>>

InitRepeat ==
  /\ \E b \in RepeatBuilds :
       disk = [bm25 |-> Complete(b), emb |-> Complete(b), meta |-> Complete(b),
               chunks |-> Complete(b)]
  /\ tieOrder \in {"stable", "other"}
  /\ _bm25 = 0
  /\ _corpus_tokens = 0
  /\ _embeddings = 0
  /\ _metas = 0
  /\ _chunks = NoChunks
  /\ _embed_model = FALSE
  /\ pc = [t \in {Main} |-> "idle"]
  /\ call = [t \in {Main} |-> NoCall]
  /\ ld = [t \in {Main} |-> NoLoad]
  /\ exitStatus = 0
  /\ stderr = ""
  /\ bpc = BuilderIdle
  /\ bbuild = 0
  /\ probe = NoProbe

NextRepeat ==
  \/ Next
  \/ Keep(Main)

SpecRepeat == InitRepeat /\ [][NextRepeat]_vars

(***************************************************************************)
(* Direct calls of pure functions in a process that does nothing else.     *)
(***************************************************************************)
\* nothing on disk, nothing loaded, no call of retrieve, no builder
IdleProcess ==
  /\ disk = [bm25 |-> Absent, emb |-> Absent, meta |-> Absent, chunks |-> Absent]
  /\ tieOrder = "stable"
  /\ _bm25 = 0
  /\ _corpus_tokens = 0
  /\ _embeddings = 0
  /\ _metas = 0
  /\ _chunks = NoChunks
  /\ _embed_model = FALSE
  /\ pc = [t \in {Main} |-> "idle"]
  /\ call = [t \in {Main} |-> NoCall]
  /\ ld = [t \in {Main} |-> NoLoad]
  /\ exitStatus = 0
  /\ stderr = ""
  /\ bpc = BuilderIdle
  /\ bbuild = 0

(***************************************************************************)
(* retrieve.py: the phrase selection of _phrase_boost, called with queries *)
(* of up to MaxQueryWords words: the word "be", with "o'er" at up to two   *)
(* places and, or not, a pair of double quotes around a run of words.      *)
(***************************************************************************)
MaxQueryWords == 12
WordBe == <<"b","e">>
WordOer == <<"o","'","e","r">>

RECURSIVE JoinWords(_)
\* " ".join(words)
JoinWords(words) ==
  IF words = <<>> THEN <<>>
  ELSE IF Len(words) = 1 THEN words[1]
  ELSE words[1] \o <<" ">> \o JoinWords(Tail(words))

\* the query of n words with "o'er" at the places of apos and double quotes
\* before word span[1] and after word span[2] (no quotes when span = <<>>)
QueryOfWords(n, apos, span) ==
  JoinWords([i \in 1..n |->
     (IF span # <<>> /\ span[1] = i THEN <<DQuote>> ELSE <<>>)
     \o (IF i \in apos THEN WordOer ELSE WordBe)
     \o (IF span # <<>> /\ span[2] = i THEN <<DQuote>> ELSE <<>>)])

PhraseInputs ==
  UNION { { QueryOfWords(n, apos, span) :
              apos \in {a \in SUBSET (1..n) : Cardinality(a) <= 2},
              span \in {<<>>} \cup {ab \in (1..n) \X (1..n) : ab[1] <= ab[2]} } :
          n \in 1..MaxQueryWords }

\* lines 106-117 of _phrase_boost, from the call to the needle
SelectPhrase ==
  /\ probe.op = "_phrase_boost"
  /\ probe.at = "called"
  /\ probe' = [probe EXCEPT !.at = "returned",
                            !.output = [phrase |-> SelectedPhrase(probe.input),
                                        needle |-> PhraseNeedle(probe.input)]]
  /\ UNCHANGED <<disk, tieOrder, globals, process, builder>>

InitPhrase ==
  /\ IdleProcess
  /\ \E query \in PhraseInputs :
       probe = [op |-> "_phrase_boost", at |-> "called", input |-> query,
                cap |-> 0, output |-> <<>>]

NextPhrase == SelectPhrase

SpecPhrase == InitPhrase /\ [][NextPhrase]_vars

(***************************************************************************)
(* The query process on a directory where chunk.py has written chunks.jsonl *)
(* again after index.py built the index: the three index files are of one  *)
(* build, chunks.jsonl of the same or of another one.                      *)
(***************************************************************************)
NRechunkBuilds == 2

InitRechunk ==
  /\ \E b \in 1..NRechunkBuilds, c \in 1..NRechunkBuilds :
       disk = [bm25 |-> Complete(b), emb |-> Complete(b), meta |-> Complete(b),
               chunks |-> Complete(c)]
  /\ tieOrder = "stable"
  /\ _bm25 = 0
  /\ _corpus_tokens = 0
  /\ _embeddings = 0
  /\ _metas = 0
  /\ _chunks = NoChunks
  /\ _embed_model = FALSE
  /\ pc = [t \in {Main} |-> "idle"]
  /\ call = [t \in {Main} |-> NoCall]
  /\ ld = [t \in {Main} |-> NoLoad]
  /\ exitStatus = 0
  /\ stderr = ""
  /\ bpc = BuilderIdle
  /\ bbuild = 0
  /\ probe = NoProbe

SpecRechunk == InitRechunk /\ [][Next]_vars

(***************************************************************************)
(* chunk.py: _make_chunks_for_scene and build_chunks.  A passage is one    *)
(* speech [work_id, act, scene, line_start, text]; its text is kept as the *)
(* list text.split("\n") of its lines, and a line is the pair <<p, i>> of  *)
(* the passage's place in the list and the line's place in the speech, so  *)
(* that every line occurrence of the input is told apart.  line_start 0    *)
(* stands for None (the code tests it with "if l_start").  A chunk keeps   *)
(* the fields chunk_id, work_id, act, scene, seq, line_start, line_end and *)
(* text (the list of the lines joined by "\n"); play, speaker and          *)
(* source_path are copies of input fields and are left out.                *)
(***************************************************************************)
CHUNK_MIN_LINES == 15
CHUNK_MAX_LINES == 30
CHUNK_OVERLAP == 5

WorkIds == <<"hamlet", "macbeth">>
PLAY_CODES ==
  [w \in {"hamlet", "macbeth"} |->
     IF w = "hamlet" THEN <<"H","A","M","L","E","T">>
     ELSE <<"M","A","C","B","E","T","H">>]

\* format(seq, "04d")
PadFour(seq) ==
  [i \in 1..(IF Len(str(seq)) < 4 THEN 4 - Len(str(seq)) ELSE 0) |-> "0"] \o str(seq)

\* f"{code}{act}{scene}{seq:04d}"
ChunkIdWithoutSeparators(code, act, scene, seq) ==
  code \o str(act) \o str(scene) \o PadFour(seq)

\* f"{code}_{act}_{scene}_{seq:04d}"
ChunkId(code, act, scene, seq) ==
  code \o <<"_">> \o str(act) \o <<"_">> \o str(scene) \o <<"_">> \o PadFour(seq)

\* flat_lines: every line of every passage with its line number (0 for None)
RECURSIVE FlatLines(_)
FlatLines(passages) ==
  IF passages = <<>> THEN <<>>
  ELSE [i \in 1..Len(passages[1].text) |->
          [line |-> passages[1].text[i],
           num  |-> IF passages[1].line_start # 0
                    THEN passages[1].line_start + (i - 1) ELSE 0]]
       \o FlatLines(Tail(passages))

\* next((w[2] for w in window if w[2] is not None), None)
FirstNum(window) ==
  IF \E i \in 1..Len(window) : window[i].num # 0
  THEN window[Min({i \in 1..Len(window) : window[i].num # 0})].num ELSE 0

\* next((w[2] for w in reversed(window) if w[2] is not None), None)
LastNum(window) ==
  IF \E i \in 1..Len(window) : window[i].num # 0
  THEN window[Max({i \in 1..Len(window) : window[i].num # 0})].num ELSE 0

WindowText(window) == [i \in 1..Len(window) |-> window[i].line]

\* the merge of the last, short window into the previous chunk
MergeRemainder(chunks, window) ==
  [chunks EXCEPT ![Len(chunks)] =
     [@ EXCEPT !.text = @ \o WindowText(window),
               !.line_end = IF window[Len(window)].num # 0
                            THEN window[Len(window)].num ELSE @]]

\* the while loop of _make_chunks_for_scene, from one test of its condition
RECURSIVE ChunkLoop(_, _, _, _, _)
ChunkLoop(flat_lines, first, start, seq, chunks) ==
  IF ~(start < Len(flat_lines)) THEN chunks
  ELSE LET end == Min({start + CHUNK_MAX_LINES, Len(flat_lines)})
           window == SubSeq(flat_lines, start + 1, end)
       IN IF Len(window) < CHUNK_MIN_LINES /\ chunks # <<>>
          THEN MergeRemainder(chunks, window)
          ELSE ChunkLoop(flat_lines, first,
                         start + Max({Len(window) - CHUNK_OVERLAP, 1}),
                         seq + 1,
                         Append(chunks,
                           [chunk_id |-> ChunkId(PLAY_CODES[first.work_id],
                                                 first.act, first.scene, seq),
                            work_id |-> first.work_id,
                            act |-> first.act,
                            scene |-> first.scene,
                            seq |-> seq,
                            line_start |-> FirstNum(window),
                            line_end |-> LastNum(window),
                            text |-> WindowText(window)]))

_make_chunks_for_scene(passages) ==
  IF passages = <<>> THEN <<>>
  ELSE ChunkLoop(FlatLines(passages), passages[1], 0, 0, <<>>)

\* the order of the keys (work_id, act, scene) under sorted()
WorkPlace(w) == CHOOSE i \in 1..Len(WorkIds) : WorkIds[i] = w
KeyBefore(a, b) ==
  \/ WorkPlace(a[1]) < WorkPlace(b[1])
  \/ a[1] = b[1] /\ a[2] < b[2]
  \/ a[1] = b[1] /\ a[2] = b[2] /\ a[3] < b[3]

RECURSIVE SortedKeys(_)
SortedKeys(keys) ==
  IF keys = {} THEN <<>>
  ELSE LET least == CHOOSE a \in keys : \A b \in keys \ {a} : KeyBefore(a, b)
       IN <<least>> \o SortedKeys(keys \ {least})

KeyOf(p) == <<p.work_id, p.act, p.scene>>

\* scenes[key]: the passages of one scene, in the order of the list
ScenePassages(passages, key) ==
  SelectSeq(passages, LAMBDA p : KeyOf(p) = key)

RECURSIVE ChunksOfScenes(_, _)
ChunksOfScenes(passages, keys) ==
  IF keys = <<>> THEN <<>>
  ELSE _make_chunks_for_scene(ScenePassages(passages, keys[1]))
       \o ChunksOfScenes(passages, Tail(keys))

build_chunks(passages) ==
  ChunksOfScenes(passages,
                 SortedKeys({KeyOf(passages[i]) : i \in 1..Len(passages)}))

\* the passage lists build_chunks is called with: up to MaxPassages speeches
\* of the works of WorkIds, acts 1 and 11, scenes 2 and 12
MaxPassages == 2
SpeechLines == {1, 20, 45}
Speeches ==
  [work_id : {"hamlet", "macbeth"}, act : {1, 11}, scene : {2, 12},
   line_start : {0, 7}, lines : SpeechLines]

\* the list of passages of the speeches s, each line told apart
PassagesOf(s) ==
  [p \in 1..Len(s) |->
     [work_id |-> s[p].work_id, act |-> s[p].act, scene |-> s[p].scene,
      line_start |-> s[p].line_start,
      text |-> [i \in 1..s[p].lines |-> <<p, i>>]]]

BuildChunks ==
  /\ probe.op = "build_chunks"
  /\ probe.at = "called"
  /\ probe' = [probe EXCEPT !.at = "returned",
                            !.output = build_chunks(probe.input)]
  /\ UNCHANGED <<disk, tieOrder, globals, process, builder>>

InitChunk ==
  /\ IdleProcess
  /\ \E n \in 1..MaxPassages :
       \E s \in [1..n -> Speeches] :
          probe = [op |-> "build_chunks", at |-> "called",
                   input |-> PassagesOf(s), cap |-> 0, output |-> <<>>]

NextChunk == BuildChunks

SpecChunk == InitChunk /\ [][NextChunk]_vars

(***************************************************************************)
(* Properties of retrieve, on the states where the call of the query       *)
(* process has returned or raised.                                         *)
(***************************************************************************)
Result == call[Main].result
\* retrieve has returned a list
Returned == pc[Main] = "returned"
\* _ensure_loaded has loaded the index, the chunk texts and the model
Loaded ==
  /\ _bm25 # 0 /\ _corpus_tokens # 0 /\ _embeddings # 0 /\ _metas # 0
  /\ _chunks.set /\ _chunks.rows = SetOrder(RowsOf(_chunks.build))
  /\ _embed_model
\* retrieve has come to its end on a loaded index
Ended ==
  /\ Loaded
  /\ call[Main].op = "retrieve"
  /\ pc[Main] \in {"returned", "raised"}
LoadedCorpus == CorpusIdOf(_chunks.build)
\* the rows that pass the work filter of the call
RowsPassing ==
  {i \in 0..(Len(_chunks.rows) - 1) :
     call[Main].play_filter = None \/ PassesFilter(call[Main].play_filter, _metas, i)}
\* the rows whose stripped text holds the stripped phrase of the call
RowsWithPhrase ==
  {i \in 0..(Len(_chunks.rows) - 1) : PhraseMatchesMemo[LoadedCorpus][call[Main].q][i]}
RowsIn(sources) == {sources[p].row : p \in 1..Len(sources)}
\* the pools of every build, query and tie order, computed once
VectorPoolOf ==
  [b \in Builds |-> [q \in QueryIds |-> [ties \in {"stable", "other"} |->
     DOMAIN _embedding_search(b, q, EMBED_K, ties)]]]
LexicalPoolOf ==
  [b \in Builds |-> [q \in QueryIds |-> [ties \in {"stable", "other"} |->
     DOMAIN _bm25_search(b, q, BM25_K, ties)]]]
VectorPool ==
  IF _embeddings \in Builds /\ call[Main].q \in QueryIds
  THEN VectorPoolOf[_embeddings][call[Main].q][tieOrder]
  ELSE DOMAIN _embedding_search(_embeddings, call[Main].q, EMBED_K, tieOrder)
LexicalPool ==
  IF _bm25 \in Builds /\ call[Main].q \in QueryIds
  THEN LexicalPoolOf[_bm25][call[Main].q][tieOrder]
  ELSE DOMAIN _bm25_search(_bm25, call[Main].q, BM25_K, tieOrder)

\* C1: when retrieve returns, every chunk that passes the work filter and
\* whose normalised text holds the usable phrase of the query is in the ranked
\* candidate list, also when no pool proposed it and also when no pool row
\* passed the work filter.
C1_PhraseChunkIsRanked ==
  Returned => (RowsPassing \cap RowsWithPhrase) \subseteq RowsIn(Result.ranked)

\* The words of a text: the maximal runs of letters and digits, lowercased.
\* Two texts that differ only in letter case and punctuation have the same
\* words.
WordsOf(text) ==
  split([i \in 1..Len(text) |->
           IF LowerChar(text[i]) \in LowerSet \cup DigitChars
           THEN LowerChar(text[i]) ELSE " "])
\* the words of the phrase stand in the text, in a row
HoldsWords(text, phrase) ==
  LET tw == WordsOf(text)
      pw == WordsOf(phrase)
  IN \E o \in 0..(Len(tw) - Len(pw)) : SubSeq(tw, o + 1, o + Len(pw)) = pw
\* the rows that hold the selected phrase of the call up to case and
\* punctuation
RowsHoldingWords ==
  {i \in 0..(Len(_chunks.rows) - 1) :
     /\ NeedleMemo[call[Main].q] # None
     /\ HoldsWords(TextOf(_chunks.build, i), SelectedPhrase(Queries[call[Main].q]))}

\* C2: the phrase match ignores punctuation and letter case: when retrieve
\* ranks candidates, every searched chunk that holds the phrase up to case and
\* punctuation gets the phrase boost; so the chunk "To be, or not to
\* be<em dash>that is the question" does for the query "to be or not to be
\* that is the question".
C2_PunctuationInsensitiveMatch ==
  (Returned /\ Result.candidates # {}) =>
     (RowsPassing \cap RowsHoldingWords) \subseteq Result.boosts

\* the two-chunk index, the query "to be or not to be", no work filter
TwoChunkCase ==
  /\ Returned
  /\ Loaded
  /\ LoadedCorpus = 1
  /\ Queries[call[Main].q] = QueryToBe
  /\ call[Main].play_filter = None
\* a fused score of 1.0 or more: only a boosted row has one
BoostDominated(score) == score >= PHRASE_BOOST * Result.den

\* C3 as stated: on the two-chunk index retrieve("to be or not to be") returns
\* chunk A first with a boost-dominated score and does not return chunk B.
C3_ChunkBNotReturned ==
  TwoChunkCase =>
     /\ Len(Result.sources) >= 1
     /\ Result.sources[1].chunk_id = "HAMLET_3_1_0000"
     /\ BoostDominated(Result.sources[1].score)
     /\ \A p \in 1..Len(Result.sources) : Result.sources[p].chunk_id # "MACBETH_1_1_0000"

\* C3: on the two-chunk index retrieve("to be or not to be") returns chunk A
\* first with a boost-dominated score (1.0 or more); for k >= 2 it returns
\* chunk B too, second, with a score below 1.0: the vector pool proposes
\* every row of a two-row corpus.
C3_ChunkAFirstThenB ==
  TwoChunkCase =>
     /\ Len(Result.sources) = (IF call[Main].k >= 2 THEN 2 ELSE 1)
     /\ Result.sources[1].chunk_id = "HAMLET_3_1_0000"
     /\ Result.sources[1].sid = Sid(1)
     /\ BoostDominated(Result.sources[1].score)
     /\ call[Main].k >= 2 =>
          /\ Result.sources[2].chunk_id = "MACBETH_1_1_0000"
          /\ ~BoostDominated(Result.sources[2].score)
C3_BothChunksReturned ==
  /\ TwoChunkCase
  /\ call[Main].k >= 2
  /\ Len(Result.sources) = 2
  /\ Result.sources[1].chunk_id = "HAMLET_3_1_0000"
  /\ Result.sources[2].chunk_id = "MACBETH_1_1_0000"

\* no chunk holds a token of the query, and none passes the phrase check
NoLexicalNoPhraseCase ==
  /\ Ended
  /\ Len(_chunks.rows) > 0
  /\ \A i \in 0..(Len(_chunks.rows) - 1) : ~SharesTokenMemo[LoadedCorpus][call[Main].q][i]
  /\ RowsWithPhrase = {}

\* C4 as stated: for a non-empty corpus, a query whose tokens are in no chunk
\* and whose phrase no chunk holds makes retrieve return an empty list, not an
\* error.
C4_NoMatchReturnsEmpty ==
  NoLexicalNoPhraseCase => (Returned /\ Result.sources = <<>>)

\* C4: for a non-empty corpus, a query whose tokens are in no chunk and whose
\* phrase no chunk holds makes retrieve return, without an error, rows of the
\* vector pool that pass the work filter, by descending similarity and none
\* boosted; the list is empty exactly when no row of the vector pool passes
\* the work filter.
C4_NoMatchReturnsVectorPool ==
  NoLexicalNoPhraseCase =>
     /\ Returned
     /\ LexicalPool = {}
     /\ RowsIn(Result.ranked) = VectorPool \cap RowsPassing
     /\ RowsIn(Result.sources) \subseteq RowsIn(Result.ranked)
     /\ Result.sources = <<>> <=> VectorPool \cap RowsPassing = {}
     /\ \A p \in 1..Len(Result.sources) : ~BoostDominated(Result.sources[p].score)
     /\ \A p, r \in 1..Len(Result.sources) :
          p < r => SimRaw(_embeddings, call[Main].q, Result.sources[p].row)
                     >= SimRaw(_embeddings, call[Main].q, Result.sources[r].row)
C4_NoMatchYetRowsReturned ==
  /\ NoLexicalNoPhraseCase
  /\ Returned
  /\ Len(Result.sources) >= 2
  /\ Queries[call[Main].q] = QueryZounds

\* C5: the list retrieve returns has at most k items and at most as many as
\* the diversity filter let through, and no row is in it twice.
C5_AtMostKAndNoDuplicates ==
  Returned =>
     /\ Len(Result.sources) <= call[Main].k
     /\ Len(Result.sources) <= Len(Result.kept)
     /\ \A p, r \in 1..Len(Result.sources) :
          p # r => /\ Result.sources[p].row # Result.sources[r].row
                   /\ Result.sources[p].chunk_id # Result.sources[r].chunk_id
\* the slice cut the list
C5_ResultTrimmedToK ==
  /\ Returned
  /\ Len(Result.kept) > call[Main].k
  /\ Len(Result.sources) = call[Main].k
  /\ call[Main].k >= 2

\* the items of the list with the scene key of item p
SameScene(sources, p) ==
  {r \in 1..Len(sources) : SceneKey(sources[r].meta) = SceneKey(sources[p].meta)}

\* C6: no (work, act, scene) key is in a list retrieve returns more than
\* MAX_PER_SCENE times, and none is in the output of _apply_diversity more
\* than N times for any input list and any cap N.
C6_AtMostCapPerScene ==
  /\ Returned =>
       \A p \in 1..Len(Result.sources) :
          Cardinality(SameScene(Result.sources, p)) <= MAX_PER_SCENE
  /\ probe.at = "returned" =>
       \A p \in 1..Len(probe.output) :
          Cardinality(SameScene(probe.output, p)) <= probe.cap
\* three chunks of one scene rank above two chunks of other scenes, N = 2:
\* two of the three are kept, and the two others
C6_ThirdOfSceneDropped ==
  /\ probe.at = "returned"
  /\ probe.cap = 2
  /\ Len(probe.input) = 5
  /\ SameScene(probe.input, 1) = {1, 2, 3}
  /\ SameScene(probe.input, 4) = {4}
  /\ probe.output = <<probe.input[1], probe.input[2], probe.input[4], probe.input[5]>>

\* C7 as stated: the ranked candidates are in descending order of fused
\* score, and of two with equal scores the one of the smaller row index is
\* first, whichever signal proposed them and whether or not the phrase boost
\* was added.
C7_TiesByRowIndex ==
  Returned =>
     \A p, r \in 1..Len(Result.ranked) :
        p < r => \/ Result.ranked[p].score > Result.ranked[r].score
                 \/ /\ Result.ranked[p].score = Result.ranked[r].score
                    /\ Result.ranked[p].row < Result.ranked[r].row

\* C7: the ranked candidates are in descending order of fused score; of two
\* with equal scores a row that a pool proposed is before a row that only the
\* phrase boost added, whatever their row indices, and two rows of the same
\* kind are in the order the candidate set, or the phrase scan, gave them
\* (ascending row index here).
C7_TiesByInsertionOrder ==
  Returned =>
     \A p, r \in 1..Len(Result.ranked) :
        p < r =>
          \/ Result.ranked[p].score > Result.ranked[r].score
          \/ /\ Result.ranked[p].score = Result.ranked[r].score
             /\ \/ /\ Result.ranked[p].row \in Result.candidates
                   /\ Result.ranked[r].row \notin Result.candidates
                \/ /\ Result.ranked[p].row \in Result.candidates
                        <=> Result.ranked[r].row \in Result.candidates
                   /\ Result.ranked[p].row < Result.ranked[r].row
\* two equal scores, the larger row index first
C7_TieWithLargerRowFirst ==
  /\ Returned
  /\ \E p, r \in 1..Len(Result.ranked) :
       /\ p < r
       /\ Result.ranked[p].score = Result.ranked[r].score
       /\ Result.ranked[p].row > Result.ranked[r].row
       /\ Result.ranked[p].row \in Result.candidates
       /\ Result.ranked[r].row \in Result.boosts \ Result.candidates

MissingArtifact == \E p \in 1..Len(IndexFiles) : disk[IndexFiles[p]].st = "absent"
RebuildInstruction == "Index file not found. Run: python index.py"

\* C8: while one of the three index artifacts is absent, a call of retrieve
\* goes no further than load_index's existence checks: no artifact is read,
\* none is stored, no list is returned and no exception raised, and the
\* process ends only by the exit of status 2 with the rebuild instruction.
C8_MissingArtifactIsFatal ==
  MissingArtifact =>
     /\ pc[Main] \in {"idle", "ensure", "exists", "exit"}
     /\ ld[Main].bm25 = 0 /\ ld[Main].emb = 0 /\ ld[Main].meta = 0
     /\ _bm25 = 0 /\ _corpus_tokens = 0 /\ _embeddings = 0 /\ _metas = 0
     /\ ~_chunks.set
     /\ call[Main].result = Raised("none")
     /\ pc[Main] = "exit" => (exitStatus = 2 /\ stderr = RebuildInstruction)
     /\ pc[Main] # "exit" => exitStatus = 0
\* the two first files are there, meta.pkl is not: retrieve has exited
C8_ExitedOnMissingMeta ==
  /\ disk.bm25.st = "complete"
  /\ disk.emb.st = "complete"
  /\ disk.meta.st = "absent"
  /\ call[Main].op = "retrieve"
  /\ pc[Main] = "exit"
  /\ exitStatus = 2

\* C9: load_index never returns artifacts whose row counts differ.
C9_LoadedRowCountsAgree ==
  pc[Main] = "loaded" =>
     /\ NRows(ld[Main].bm25) = NRows(ld[Main].emb)
     /\ NRows(ld[Main].emb) = NRows(ld[Main].meta)

\* C10: whether save_index was killed between two writes or runs while
\* load_index reads, load_index never returns artifacts of different builds.
C10_LoadedFromOneBuild ==
  pc[Main] = "loaded" =>
     /\ ld[Main].bm25 = ld[Main].emb
     /\ ld[Main].emb = ld[Main].meta

\* what the call of thread t returns when it runs alone on the index of the
\* disk
ResultAlone(t) ==
  retrieve(disk.bm25.build, disk.emb.build, disk.meta.build, disk.chunks.build,
           SetOrder(RowsOf(disk.chunks.build)), tieOrder,
           call[t].q, call[t].k, call[t].play_filter)

\* C11: retrieve calls that run in parallel in one process are safe, also
\* when they race on the first call: no call is past _ensure_loaded while the
\* chunk list is missing or partly filled or the embedding model is unset,
\* and every call ends with the result it has when it runs alone.
C11_ParallelCallsAreSafe ==
  \A t \in DOMAIN pc :
     /\ pc[t] = "search" =>
          /\ _chunks.set
          /\ _chunks.rows = SetOrder(RowsOf(disk.chunks.build))
          /\ _embed_model
     /\ pc[t] \in {"returned", "raised"} => call[t].result = ResultAlone(t)

\* The fused score of a row, computed anew from the raw scores of the two
\* signals: the numerator of the fraction whose denominator is FusedDenAnew.
CandidateRows == (LexicalPool \cup VectorPool) \cap RowsPassing
RawLexical(i) == IF i \in LexicalPool THEN LexRaw(_bm25, call[Main].q, i) ELSE 0
RawVector(i) == IF i \in VectorPool THEN SimRaw(_embeddings, call[Main].q, i) ELSE 0
LexicalSpan ==
  Max({RawLexical(i) : i \in CandidateRows}) - Min({RawLexical(i) : i \in CandidateRows})
VectorSpan ==
  Max({RawVector(i) : i \in CandidateRows}) - Min({RawVector(i) : i \in CandidateRows})
\* (s - lo) / (span + eps) = ScoreScale (s - lo) / (ScoreScale span + 1)
LexicalDenAnew == ScoreScale * LexicalSpan + 1
VectorDenAnew == ScoreScale * VectorSpan + 1
FusedDenAnew == WeightDen * LexicalDenAnew * VectorDenAnew
ScoreAnew(i) ==
  (IF i \in CandidateRows
   THEN BM25_WEIGHT * ScoreScale
          * (RawLexical(i) - Min({RawLexical(j) : j \in CandidateRows})) * VectorDenAnew
        + EMBED_WEIGHT * ScoreScale
          * (RawVector(i) - Min({RawVector(j) : j \in CandidateRows})) * LexicalDenAnew
   ELSE 0)
  + (IF i \in RowsPassing \cap RowsWithPhrase THEN FusedDenAnew ELSE 0)

\* C12: the score of every returned source is w_lex * norm_lex + w_vec *
\* norm_vec, plus 1.0 if the chunk holds the phrase, where the norms are the
\* min-max normalisations over the work-filtered union of the pools of the
\* raw scores, 0 standing for a row a signal did not propose, and both norms
\* are 0 for a row only the phrase boost added; the returned order is
\* descending in that value.
C12_ScoreIsFusedFormula ==
  (Returned /\ Loaded /\ Result.sources # <<>>) =>
     /\ Result.den = FusedDenAnew
     /\ \A p \in 1..Len(Result.sources) :
          Result.sources[p].score = ScoreAnew(Result.sources[p].row)
     /\ \A p, r \in 1..Len(Result.sources) :
          p < r => ScoreAnew(Result.sources[p].row) >= ScoreAnew(Result.sources[r].row)
\* a boosted candidate row, a row only the boost added, an unboosted row
\* with a score above 0
C12_AllKindsOfScore ==
  /\ Returned
  /\ Loaded
  /\ \E p, r, u \in 1..Len(Result.sources) :
       /\ Result.sources[p].row \in CandidateRows \cap Result.boosts
       /\ Result.sources[p].score > Result.den
       /\ Result.sources[r].row \in Result.boosts \ Result.candidates
       /\ Result.sources[u].row \notin Result.boosts
       /\ Result.sources[u].score > 0
       /\ LexicalSpan > 0
       /\ VectorSpan > 0

\* the largest constant the raw lexical scores are multiplied by
MaxScale == 3
\* what the call returns when every raw lexical score is c times what it is
ResultScaled(c) ==
  The({ RetrieveCandidates(_metas, _chunks.build, _chunks.rows, call[Main].q,
                           call[Main].k, call[Main].play_filter,
                           [idx \in DOMAIN bm25_scores |-> c * bm25_scores[idx]],
                           _embedding_search(_embeddings, call[Main].q, EMBED_K, tieOrder)) :
        bm25_scores \in {_bm25_search(_bm25, call[Main].q, BM25_K, tieOrder)} })
RowOrder(sources) == [p \in 1..Len(sources) |-> sources[p].row]
PlaceOf(sources, row) == CHOOSE p \in 1..Len(sources) : sources[p].row = row
Distance(a, b) == IF a >= b THEN a - b ELSE b - a
\* the fused scores at places a and b of res.ranked differ by less than
\* w_lex * eps / span:  |gap| / den < BM25_WEIGHT / (WeightDen * ScoreScale * span)
NearlyTied(res, a, b, span) ==
  Distance(res.ranked[a].score, res.ranked[b].score)
    <= (BM25_WEIGHT * (res.den \div WeightDen) - 1) \div (ScoreScale * span)

\* C13 as stated: multiplying every raw lexical score by a positive constant
\* leaves the fused ranking unchanged, the eps guard in place.
C13_ScalingKeepsRanking ==
  (Returned /\ Loaded) =>
     \A c \in 2..MaxScale : RowOrder(ResultScaled(c).ranked) = RowOrder(Result.ranked)
\* C13, amended: multiplying every raw lexical score by a positive constant
\* leaves the ranked rows the same rows, leaves the ranking unchanged when the
\* candidates' raw lexical scores are all equal, and otherwise changes the
\* order of two candidates only if their fused scores, before and after, are
\* equal or differ by less than w_lex * eps / (the smaller lexical range).
C13_ScalingMovesOnlyNearTies ==
  (Returned /\ Loaded /\ Result.candidates # {}) =>
     \A c \in 2..MaxScale : \A scaled \in {ResultScaled(c)} :
        /\ scaled.outcome = "ok"
        /\ Len(scaled.ranked) = Len(Result.ranked)
        /\ RowsIn(scaled.ranked) = RowsIn(Result.ranked)
        /\ LexicalSpan = 0 => RowOrder(scaled.ranked) = RowOrder(Result.ranked)
        /\ \A p, r \in 1..Len(Result.ranked) :
             (/\ p < r
              /\ PlaceOf(scaled.ranked, Result.ranked[r].row)
                   < PlaceOf(scaled.ranked, Result.ranked[p].row))
             => /\ LexicalSpan > 0
                /\ NearlyTied(Result, p, r, LexicalSpan)
                /\ NearlyTied(scaled, PlaceOf(scaled.ranked, Result.ranked[p].row),
                              PlaceOf(scaled.ranked, Result.ranked[r].row), LexicalSpan)
\* three or more ranked rows with unlike lexical scores, the scaled rankings
\* not all the same as the ranking
C13_ScaledRankingDiffers ==
  /\ Returned
  /\ Loaded
  /\ Len(Result.ranked) >= 3
  /\ LexicalSpan > 0
  /\ \E c \in 2..MaxScale : RowOrder(ResultScaled(c).ranked) # RowOrder(Result.ranked)
  /\ \E c \in 2..MaxScale : RowOrder(ResultScaled(c).ranked) = RowOrder(Result.ranked)

\* C14: with the weights 0.4 and 0.6 every chunk that got the phrase boost is
\* ranked before every chunk that did not, a chunk only the boost added (0 +
\* boost) before the best unboosted candidate too: a boosted score is 1.0 or
\* more, an unboosted one less than 1.0.
C14_BoostedBeforeUnboosted ==
  (Returned /\ Loaded) =>
     \A p, r \in 1..Len(Result.ranked) :
        (/\ Result.ranked[p].row \in RowsWithPhrase
         /\ Result.ranked[r].row \notin RowsWithPhrase)
        => /\ p < r
           /\ Result.ranked[p].score >= Result.den
           /\ Result.ranked[r].score < Result.den
\* a chunk only the boost added is ranked before an unboosted candidate that
\* has the top score of both signals among the unboosted
C14_PhraseOnlyBeforeBestCandidate ==
  /\ Returned
  /\ Loaded
  /\ \E p, r \in 1..Len(Result.ranked) :
       /\ Result.ranked[p].row \in RowsWithPhrase \ CandidateRows
       /\ Result.ranked[r].row \in CandidateRows \ RowsWithPhrase
       /\ Result.ranked[r].score > 0
       /\ 2 * Result.ranked[r].score > Result.den
       /\ p < r

\* C15: when a non-empty work filter is given, the play of every returned
\* source contains the filter, letter case ignored, whichever pool or the
\* phrase boost the source came from.
C15_SourcesMatchWorkFilter ==
  (Returned /\ call[Main].play_filter # None) =>
     \A p \in 1..Len(Result.sources) :
        Contains(lower(call[Main].play_filter), lower(Result.sources[p].meta.play))
\* under the filter "MAC" a pool row and a row only the phrase boost added
\* are returned, and a row of a pool is held back
C15_FilteredPoolAndPhraseRows ==
  /\ Returned
  /\ Loaded
  /\ call[Main].play_filter = FilterMac
  /\ (LexicalPool \cup VectorPool) \ RowsPassing # {}
  /\ RowsIn(Result.sources) \cap CandidateRows # {}
  /\ RowsIn(Result.sources) \cap (RowsWithPhrase \ CandidateRows) # {}

\* C16: the returned source at position i, counted from 1, has the sid "S"
\* followed by i; the sids are given after the diversity filter and the
\* truncation (the ranked and the kept items carry none), so they run from S1
\* without a gap and no source is without one.
C16_SidIsPosition ==
  Returned =>
     /\ \A i \in 1..Len(Result.sources) :
          /\ i <= 9
          /\ Result.sources[i].sid = <<"S", DigitStr[i + 1]>>
          /\ Result.sources[i] = [Result.kept[i] EXCEPT !.sid = <<"S", DigitStr[i + 1]>>]
     /\ \A p \in 1..Len(Result.ranked) : Result.ranked[p].sid = <<>>
     /\ \A p \in 1..Len(Result.kept) : Result.kept[p].sid = <<>>
\* the diversity filter dropped an item ahead of a returned one: the sid of
\* that one is not its rank before the filter
C16_NumberedAfterDrop ==
  /\ Returned
  /\ Len(Result.ranked) > Len(Result.kept)
  /\ Len(Result.sources) >= 4
  /\ \E i \in 1..Len(Result.sources) : Result.sources[i].row # Result.ranked[i].row

PlacesUnderCap(sources, cap) ==
  {p \in 1..Len(sources) : Cardinality({r \in SameScene(sources, p) : r < p}) < cap}
ItemsAt(sources, places) ==
  [i \in 1..Cardinality(places) |-> sources[SetOrder(places)[i]]]

\* C20: the diversity filter is a filter, not a re-ranker: its output is the
\* input without the dropped items, the kept ones in their order; an item is
\* dropped exactly when N or more earlier items of the input have its (work,
\* act, scene) key; and retrieve truncates to k after the filter, so that
\* lower-ranked items of other scenes take the places of dropped items.
C20_DiversityOnlyDrops ==
  /\ probe.at = "returned" =>
       probe.output = ItemsAt(probe.input, PlacesUnderCap(probe.input, probe.cap))
  /\ Returned =>
       /\ Result.kept = ItemsAt(Result.ranked, PlacesUnderCap(Result.ranked, MAX_PER_SCENE))
       /\ Len(Result.sources)
            = (IF call[Main].k < Len(Result.kept) THEN call[Main].k ELSE Len(Result.kept))
       /\ \A i \in 1..Len(Result.sources) : Result.sources[i].row = Result.kept[i].row
\* an item ranked below the first k is returned in the place of a dropped one
C20_LowerRankedFillsPlace ==
  /\ Returned
  /\ Len(Result.kept) < Len(Result.ranked)
  /\ \E i \in 1..Len(Result.sources), p \in 1..Len(Result.ranked) :
       /\ p > call[Main].k
       /\ Result.ranked[p].row = Result.sources[i].row
       /\ \E r \in 1..(p - 1) :
            /\ r \notin PlacesUnderCap(Result.ranked, MAX_PER_SCENE)
            /\ SceneKey(Result.ranked[r].meta) # SceneKey(Result.ranked[p].meta)

Loading ==
  pc[Main] \in {"exists", "read", "loaded", "store_rest", "chunks_exists",
                "chunks_read", "model"}

\* C18: in one process the index artifacts are loaded once, on the first
\* call: load_index is entered only while nothing is cached, a cached index,
\* matrix or metadata list is never replaced, nothing of the cache changes
\* outside _ensure_loaded (no retrieve call modifies the index, the matrix,
\* the metadata or the chunk texts), and once all is loaded nothing changes
\* and no call loads again.
C18_LoadedOnceThenReused ==
  [][/\ (~Loading /\ Loading') =>
          (/\ _bm25 = 0 /\ _corpus_tokens = 0 /\ _embeddings = 0 /\ _metas = 0
           /\ ~_chunks.set /\ ~_embed_model /\ probe = NoProbe)
     /\ _bm25 # 0 => _bm25' = _bm25
     /\ _corpus_tokens # 0 => _corpus_tokens' = _corpus_tokens
     /\ _embeddings # 0 => _embeddings' = _embeddings
     /\ _metas # 0 => _metas' = _metas
     /\ _embed_model => _embed_model'
     /\ ~Loading => globals' = globals
     /\ Loaded => (globals' = globals /\ ~Loading')]_vars
\* a call after the first has returned a list from the loaded cache
C18_LaterCallOnCache ==
  /\ probe.op = "retrieve"
  /\ Returned
  /\ Loaded
  /\ CallArgs(Main) # probe.input
  /\ Result.sources # <<>>

\* a call of retrieve is under way or over on a loaded index
CallOnLoaded == Loaded /\ call[Main].op = "retrieve"
\* the rows of the loaded index
LoadedRows == RowsOf(_bm25)
LexicalScore(i) == LexRaw(_bm25, call[Main].q, i)
VectorScore(i) == SimRaw(_embeddings, call[Main].q, i)

\* C21: the lexical search returns at most k rows, each with a score above 0
\* and each among the k highest-scoring rows; a row with a score of 0 or less,
\* a chunk that shares no token with the query among them, is never in the
\* lexical pool.  The vector search has no threshold: it returns min(k, corpus
\* size) rows, the k most similar.
C21_LexicalPoolPositiveVectorPoolFull ==
  Ended =>
    \A lexical \in {_bm25_search(_bm25, call[Main].q, BM25_K, tieOrder)},
       vector \in {_embedding_search(_embeddings, call[Main].q, EMBED_K, tieOrder)} :
     /\ Cardinality(DOMAIN lexical) <= BM25_K
     /\ \A i \in DOMAIN lexical :
          /\ i \in LoadedRows
          /\ LexicalScore(i) > 0
          /\ SharesTokenMemo[LoadedCorpus][call[Main].q][i]
          /\ Cardinality({j \in LoadedRows : LexicalScore(j) > LexicalScore(i)}) < BM25_K
          /\ lexical[i] = LexicalScore(i)
     /\ \A i \in LoadedRows : LexicalScore(i) <= 0 => i \notin DOMAIN lexical
     /\ Cardinality(DOMAIN vector)
          = (IF EMBED_K < Cardinality(LoadedRows) THEN EMBED_K ELSE Cardinality(LoadedRows))
     /\ \A i \in DOMAIN vector :
          /\ i \in LoadedRows
          /\ Cardinality({j \in LoadedRows : VectorScore(j) > VectorScore(i)}) < EMBED_K
          /\ vector[i] = VectorScore(i)
\* the lexical pool is short of k and of the corpus: a row that shares a
\* token with the query has a negative score and is left out, while the
\* vector pool has its k rows, one of similarity <= 0 among them
C21_ThresholdOnLexicalPoolOnly ==
  /\ CallOnLoaded
  /\ Returned
  /\ Cardinality(LexicalPool) < BM25_K
  /\ Cardinality(LexicalPool) < Cardinality(LoadedRows)
  /\ \E i \in LoadedRows \ LexicalPool :
       SharesTokenMemo[LoadedCorpus][call[Main].q][i] /\ LexicalScore(i) < 0
  /\ Cardinality(VectorPool) = EMBED_K
  /\ \E i \in VectorPool : VectorScore(i) <= 0

\* the queries whose selected phrase has fewer than 6 characters once
\* lowercased and stripped of punctuation
PhraseTooShort ==
  [q \in QueryIds |->
     /\ SelectedPhrase(Queries[q]) # None
     /\ Len(_strip_punct(SelectedPhrase(Queries[q]))) < 6]
\* the fused score of a candidate without any boost, over FusedDenAnew
FusionAnew(i) ==
  BM25_WEIGHT * ScoreScale
    * (RawLexical(i) - Min({RawLexical(j) : j \in CandidateRows})) * VectorDenAnew
  + EMBED_WEIGHT * ScoreScale
    * (RawVector(i) - Min({RawVector(j) : j \in CandidateRows})) * LexicalDenAnew

\* C22: when the selected phrase has fewer than 6 characters after
\* normalisation, retrieve skips the phrase boost and raises nothing: no row
\* is boosted, no row is added to the candidates, and the ranking is that of
\* the fused scores alone; a too-short quoted phrase is not replaced by the
\* whole query.
C22_ShortPhraseIsPureFusion ==
  (Ended /\ PhraseTooShort[call[Main].q]) =>
     /\ Returned
     /\ Result.boosts = {}
     /\ RowsIn(Result.ranked) = CandidateRows
     /\ Len(Result.ranked) = Cardinality(CandidateRows)
     /\ \A p \in 1..Len(Result.ranked) :
          /\ Result.ranked[p].score = FusionAnew(Result.ranked[p].row)
          /\ Result.ranked[p].score < Result.den
     /\ \A p, r \in 1..Len(Result.ranked) :
          p < r => \/ Result.ranked[p].score > Result.ranked[r].score
                   \/ /\ Result.ranked[p].score = Result.ranked[r].score
                      /\ Result.ranked[p].row < Result.ranked[r].row
\* the quoted phrase "to be" is too short; a chunk that holds the whole query
\* is returned without a boost, and another that holds it is not a candidate
\* and is not returned
C22_NoFallbackToWholeQuery ==
  /\ Ended
  /\ Returned
  /\ Queries[call[Main].q] = QueryShortQuote
  /\ \E p \in 1..Len(Result.sources) :
       /\ PhraseMatches(_strip_punct(QueryShortQuote), Result.sources[p].text)
       /\ Result.sources[p].score < Result.den
  /\ \E i \in RowsPassing \ RowsIn(Result.ranked) :
       PhraseMatches(_strip_punct(QueryShortQuote), TextOf(_chunks.build, i))

\* an apostrophe inside a word: a letter or digit on either side
InsideWord(query, i) ==
  /\ query[i] = "'"
  /\ i > 1 /\ i < Len(query)
  /\ LowerChar(query[i - 1]) \in LowerSet \cup DigitChars
  /\ LowerChar(query[i + 1]) \in LowerSet \cup DigitChars
\* the phrase as C23 states it: the quoted substring if the query has one,
\* apostrophes inside words not being quotes; else the whole query if it has
\* at most 10 words; else none
StatedPhrase(query) ==
  LET marks == {i \in 1..Len(query) : IsQuote(query[i]) /\ ~InsideWord(query, i)}
      opens == {i \in marks : \E j \in marks : j >= i + 2}
  IN IF opens # {}
     THEN SubSeq(query, Min(opens) + 1, Min({j \in marks : j >= Min(opens) + 2}) - 1)
     ELSE IF Len(split(query)) <= 10 THEN query
     ELSE None

\* C23: the phrase is the quoted substring if the query has one; otherwise
\* the whole query if it has at most 10 whitespace-separated words; otherwise
\* there is none and no boost, and a query whose only quote characters are
\* apostrophes inside words has no quoted substring.
C23_PhraseSelection ==
  (probe.op = "_phrase_boost" /\ probe.at = "returned") =>
     /\ probe.output.phrase = StatedPhrase(probe.input)
     /\ (StatedPhrase(probe.input) = None) => probe.output.needle = None

(***************************************************************************)
(* Properties of build_chunks, on the states where the call has returned:  *)
(* probe.input is the list of passages, probe.output the list of chunks.   *)
(***************************************************************************)
ChunksBuilt == probe.op = "build_chunks" /\ probe.at = "returned"

SceneOf(c) == <<c.work_id, c.act, c.scene>>

\* the number of chunks of the scene of chunk i that come before it
EarlierOfScene(chunks, i) ==
  Cardinality({j \in 1..(i - 1) : SceneOf(chunks[j]) = SceneOf(chunks[i])})

\* C24: the chunk ids of one build are pairwise different: within one scene
\* (work, act, scene) the sequence numbers of its chunks run 0, 1, 2, ... in
\* the order of the list, each id is the work's code, the act, the scene and
\* that number, and chunks of different scenes or works never share an id.
C24_ChunkIdsUnique ==
  ChunksBuilt =>
    /\ \A i, j \in 1..Len(probe.output) :
         i # j => probe.output[i].chunk_id # probe.output[j].chunk_id
    /\ \A i \in 1..Len(probe.output) :
         /\ probe.output[i].seq = EarlierOfScene(probe.output, i)
         /\ probe.output[i].chunk_id =
              ChunkId(PLAY_CODES[probe.output[i].work_id], probe.output[i].act,
                      probe.output[i].scene, EarlierOfScene(probe.output, i))
    /\ \A i, j \in 1..Len(probe.output) :
         SceneOf(probe.output[i]) # SceneOf(probe.output[j])
           => probe.output[i].chunk_id # probe.output[j].chunk_id

\* a build with a scene of two chunks and with act 1 scene 12 next to act 11
\* scene 2 of the same work
C24_ScenesWithLookalikeNumbers ==
  /\ ChunksBuilt
  /\ \E i, j \in 1..Len(probe.output) :
       /\ SceneOf(probe.output[i]) = SceneOf(probe.output[j])
       /\ probe.output[i].seq = 0
       /\ probe.output[j].seq = 1
  /\ \E i, j \in 1..Len(probe.output) :
       /\ probe.output[i].work_id = probe.output[j].work_id
       /\ probe.output[i].act = 1 /\ probe.output[i].scene = 12
       /\ probe.output[j].act = 11 /\ probe.output[j].scene = 2

\* the lines of the scene of chunk c, in the order of flat_lines
SceneLines(c) == WindowText(FlatLines(ScenePassages(probe.input, SceneOf(c))))

\* C27: build_chunks returns, and in what it returns each chunk's text is a
\* contiguous run of its scene's lines in which no line occurrence comes
\* twice (also after a last window shorter than CHUNK_MIN_LINES was merged
\* into the chunk before it), and every line of the input is in some chunk.
C27_ChunkTextIsRunOfSceneLines ==
  ChunksBuilt =>
    /\ \A i \in 1..Len(probe.output) :
         /\ \A a, b \in 1..Len(probe.output[i].text) :
              a # b => probe.output[i].text[a] # probe.output[i].text[b]
         /\ \E first \in 1..Len(SceneLines(probe.output[i])) :
              /\ first + Len(probe.output[i].text) - 1
                   <= Len(SceneLines(probe.output[i]))
              /\ probe.output[i].text =
                   SubSeq(SceneLines(probe.output[i]), first,
                          first + Len(probe.output[i].text) - 1)
    /\ \A p \in 1..Len(probe.input) :
         \A l \in 1..Len(probe.input[p].text) :
            \E i \in 1..Len(probe.output) :
               \E a \in 1..Len(probe.output[i].text) :
                  probe.output[i].text[a] = probe.input[p].text[l]

\* C25: whenever _ensure_loaded has returned normally (the call goes on to
\* the searches), the index, the list of chunk texts and the embedding
\* model are all loaded, also in a call that comes after a call of the same
\* process whose _ensure_loaded failed part-way.
C25_EnsureLoadedReturnsLoaded ==
  pc[Main] = "search" => Loaded

\* C26: every source retrieve returns carries the text of the chunk its
\* metadata names (the list of chunk texts has the rows of the metadata list,
\* in its order), and with a chunks.jsonl that is not the one the index was
\* built from retrieve neither pairs a text with another chunk's metadata
\* nor indexes past the end of the list.
C26_TextAndMetadataOfOneChunk ==
  /\ Returned =>
       /\ _chunks.rows = SetOrder(RowsOf(_metas))
       /\ \A p \in 1..Len(Result.sources) :
            Result.sources[p].text = TextOf(_metas, Result.sources[p].row)
  /\ pc[Main] = "raised" => Result.outcome # "IndexError"
====
